---- MODULE Spec2Model ----
(***************************************************************************)
(* betterbe: the analytics engine (completion predicate, streaks, heatmap, *)
(* rolling averages, momentum, text summary) and the check-in store it     *)
(* reads from, as state machines.                                          *)
(*                                                                         *)
(* Numbers are integers; a quotient the code computes in floating point is *)
(* kept as an exact fraction [num, den], and a quotient by zero as the     *)
(* IEEE value JavaScript yields ("Infinity", "-Infinity" or "NaN").        *)
(* A Date is an instant counted in half hours since day 0, 00:00 UTC; a    *)
(* YYYY-MM-DD string is the number of its day.                             *)
(***************************************************************************)
EXTENDS Integers, Sequences, FiniteSets, TLC

VARIABLES
    pc,        \* position of the operation in progress
    habits,    \* the habit table: a sequence of Habit records
    checkIns,  \* the check-in table: a sequence of CheckIn records
    habitId,   \* the habitId argument of the analytic call
    value,     \* the value argument of a completion-predicate call
    now,       \* the instant new Date() returns, in half hours since day 0 00:00 UTC
    zone,      \* the local time zone of the device
    days,      \* the days / windowDays argument
    res,       \* the result (and exposed locals) of the operation
    procs,     \* the check-in operations in flight, each at an await point
    nextId     \* the number of ids generateId() has handed out

vars == <<pc, habits, checkIns, habitId, value, now, zone, days, res, procs, nextId>>

----------------------------------------------------------------------------
(* Bounds of the model *)

MaxValue == 3       \* check-in values range over -1 .. MaxValue
MaxTarget == 3      \* target values range over 0 .. MaxTarget
MaxDay == 4         \* effective dates range over day 0 .. MaxDay

None == "none"

Min(a, b) == IF a <= b THEN a ELSE b
Max(a, b) == IF a >= b THEN a ELSE b

----------------------------------------------------------------------------
(* Habits (schema.ts) *)

HabitTypes == {"binary", "numeric"}

\* TargetDirection as the local layer stores it, and as mapHabitFromApi of
\* the remote layer yields it (replace('_', ' ')).
TargetDirections == {"at_least", "at_most", "exactly"}
RemoteDirections == {"at least", "at most", "exactly"}

\* targetValue?: number -- hasTarget is FALSE when the field is undefined.
Habit(id, type, hasTarget, target, dir) ==
    [id |-> id, type |-> type, hasTarget |-> hasTarget,
     targetValue |-> target, targetDirection |-> dir]

HabitDomain(id) ==
    { Habit(id, ty, FALSE, 0, dir) :
        ty \in HabitTypes, dir \in TargetDirections \cup RemoteDirections }
    \cup
    { Habit(id, x[1], TRUE, x[2], x[3]) :
        x \in HabitTypes \X (0..MaxTarget) \X (TargetDirections \cup RemoteDirections) }

\* !habit.targetValue : undefined and 0 are both falsy
NoTargetValue(h) == (~h.hasTarget) \/ h.targetValue = 0

----------------------------------------------------------------------------
(* Completion predicate: streaks.ts and heatmap.ts each carry a copy *)

isCompletedStreaksStrictAtMost(h, v) ==
    IF v = 0 THEN FALSE
    ELSE IF NoTargetValue(h) THEN v > 0
    ELSE CASE h.targetDirection = "at_least" -> v >= h.targetValue
           [] h.targetDirection = "at_most"  -> v < h.targetValue
           [] h.targetDirection = "exactly"  -> v = h.targetValue
           [] OTHER                          -> v >= h.targetValue

isCompletedStreaks(h, v) ==
    IF v = 0 THEN FALSE
    ELSE IF NoTargetValue(h) THEN v > 0
    ELSE CASE h.targetDirection = "at_least" -> v >= h.targetValue
           [] h.targetDirection = "at_most"  -> v <= h.targetValue
           [] h.targetDirection = "exactly"  -> v = h.targetValue
           [] OTHER                          -> v >= h.targetValue

isCompletedHeatmapIgnoresDirection(h, v) ==
    IF v = 0 THEN FALSE
    ELSE IF NoTargetValue(h) THEN v > 0
    ELSE v >= h.targetValue

isCompletedHeatmap(h, v) ==
    IF v = 0 THEN FALSE
    ELSE IF NoTargetValue(h) THEN v > 0
    ELSE CASE h.targetDirection = "at_least" -> v >= h.targetValue
           [] h.targetDirection = "at_most"  -> v <= h.targetValue
           [] h.targetDirection = "exactly"  -> v = h.targetValue
           [] OTHER                          -> v >= h.targetValue

----------------------------------------------------------------------------
(* Dates (JavaScript Date, as the analytics use it) *)

\* the time unit: an hour is 2 half hours
Hour == 2
Day == 24 * Hour

\* A time zone: UTC offset off0 before the instant trans, off1 from
\* trans on. off0 = off1 is a zone without daylight saving time.
Zone(o0, o1, tr) == [off0 |-> o0, off1 |-> o1, trans |-> tr]

\* date.toISOString().split('T')[0] : the UTC calendar day of the instant
toISODate(t) == t \div Day

\* new Date('YYYY-MM-DD') : a date-only string is parsed as UTC midnight
parseISODate(d) == Day * d

utcOffset(z, t) == IF t < z.trans THEN z.off0 ELSE z.off1

\* the local wall-clock time the get/set methods of Date work on
localTime(z, t) == t + utcOffset(z, t)

\* the instant of a local wall-clock time w: a time the clocks repeat is the
\* earlier instant, a time the clocks skip is read with the offset before
\* the transition (ECMAScript LocalTime/UTC)
fromLocalTime(z, w) ==
    IF w - z.off0 < z.trans THEN w - z.off0
    ELSE IF w - z.off1 >= z.trans THEN w - z.off1
    ELSE w - z.off0

\* date.setDate(date.getDate() - i) : i local calendar days back, same local
\* time of day
setDateBack(z, t, i) == fromLocalTime(z, localTime(z, t) - Day * i)

\* Math.round(a / b) for b > 0
RoundDiv(a, b) == (2 * a + b) \div (2 * b)

----------------------------------------------------------------------------
(* Sequence helpers *)

RECURSIVE SelectSeqBy(_, _)
\* checkIns.filter(c => c.habitId === id)
SelectSeqBy(s, id) ==
    IF s = <<>> THEN <<>>
    ELSE IF Head(s).habitId = id
         THEN <<Head(s)>> \o SelectSeqBy(Tail(s), id)
         ELSE SelectSeqBy(Tail(s), id)

RECURSIVE SortedDates(_)
\* Array.from(set).sort() on YYYY-MM-DD strings: ascending by date
SortedDates(S) ==
    IF S = {} THEN <<>>
    ELSE LET m == CHOOSE x \in S : \A y \in S : x <= y
         IN <<m>> \o SortedDates(S \ {m})

RECURSIVE InsertByDate(_, _)
InsertByDate(s, c) ==
    IF s = <<>> THEN <<c>>
    ELSE IF c.effectiveDate < Head(s).effectiveDate THEN <<c>> \o s
    ELSE <<Head(s)>> \o InsertByDate(Tail(s), c)

RECURSIVE SortByEffectiveDate(_)
\* Dexie sortBy('effectiveDate'): ascending, stable
SortByEffectiveDate(s) ==
    IF s = <<>> THEN <<>>
    ELSE InsertByDate(SortByEffectiveDate(SubSeq(s, 1, Len(s) - 1)), s[Len(s)])

\* new Map(); checkIns.forEach(c => map.set(c.effectiveDate, ...)) : the
\* entry of a date is the check-in encountered last
MapHas(cis, d) == \E i \in 1..Len(cis) : cis[i].effectiveDate = d
\* the entry of a date is the check-in encountered first
MapGetFirst(cis, d) ==
    LET i == CHOOSE k \in 1..Len(cis) :
                 /\ cis[k].effectiveDate = d
                 /\ \A j \in 1..(k-1) : cis[j].effectiveDate # d
    IN cis[i]

MapGet(cis, d) ==
    LET i == CHOOSE k \in 1..Len(cis) :
                 /\ cis[k].effectiveDate = d
                 /\ \A j \in (k+1)..Len(cis) : cis[j].effectiveDate # d
    IN cis[i]

\* checkInMap.get(dateStr)?.value ?? 0
MapValueOrZero(cis, d) == IF MapHas(cis, d) THEN MapGet(cis, d).value ELSE 0

RECURSIVE MaxOfSeq(_)
\* Math.max(...values) for a non-empty array
MaxOfSeq(s) ==
    IF Len(s) = 1 THEN s[1] ELSE Max(s[1], MaxOfSeq(Tail(s)))

----------------------------------------------------------------------------
(* Repositories (db/habits.ts, db/checkins.ts) *)

\* what a lookup that finds nothing returns (undefined)
NoHabit == [id |-> None]

\* a lookup that falls back to the first habit of the table
getHabitOrFirst(id) ==
    IF \E i \in 1..Len(habits) : habits[i].id = id
    THEN habits[CHOOSE i \in 1..Len(habits) : habits[i].id = id]
    ELSE IF Len(habits) > 0 THEN habits[1] ELSE NoHabit

getHabit(id) ==
    IF \E i \in 1..Len(habits) : habits[i].id = id
    THEN habits[CHOOSE i \in 1..Len(habits) : habits[i].id = id]
    ELSE NoHabit

\* the rows of the habit but the one the table holds last
getAllCheckInsForHabitButLast(id) ==
    LET own == SelectSeqBy(checkIns, id)
    IN SortByEffectiveDate(SubSeq(own, 1, Len(own) - 1))

getAllCheckInsForHabit(id) == SortByEffectiveDate(SelectSeqBy(checkIns, id))

----------------------------------------------------------------------------
(* Quotients in IEEE arithmetic *)

Fin(n, d) == [kind |-> "fin", num |-> n, den |-> d]
Infinite(k) == [kind |-> k, num |-> 0, den |-> 1]

\* a / b as JavaScript computes it (the sign of a zero is not kept)
Quot(a, b) ==
    IF b = 0
    THEN (IF a = 0 THEN Infinite("NaN")
          ELSE IF a > 0 THEN Infinite("Infinity") ELSE Infinite("-Infinity"))
    ELSE IF b > 0 THEN Fin(a, b) ELSE Fin(-a, -b)

IsFinite(q) == q.kind = "fin"

\* q >= n/d and q > n/d, for d > 0; every comparison with NaN is false
QGe(q, n, d) ==
    CASE q.kind = "fin" -> q.num * d >= n * q.den
      [] q.kind = "Infinity" -> TRUE
      [] OTHER -> FALSE
QGt(q, n, d) ==
    CASE q.kind = "fin" -> q.num * d > n * q.den
      [] q.kind = "Infinity" -> TRUE
      [] OTHER -> FALSE
QLt(q, n, d) ==
    CASE q.kind = "fin" -> q.num * d < n * q.den
      [] q.kind = "-Infinity" -> TRUE
      [] OTHER -> FALSE

----------------------------------------------------------------------------
(* Streak calculator (streaks.ts) *)

\* lastCompletedDate: null
NoDate == -1

ZeroStreaks ==
    [currentStreak |-> 0, longestStreak |-> 0,
     lastCompletedDate |-> NoDate, isActiveToday |-> FALSE,
     completedDates |-> {}]

\* the set of completed dates
CompletedDates(habit, cis) ==
    { cis[i].effectiveDate : i \in { k \in 1..Len(cis) :
                                       isCompletedStreaks(habit, cis[k].value) } }

RECURSIVE WalkBack(_, _, _)
\* while (completedDates.has(iso(checkDate))) { currentStreak++; setDate(-1) }
WalkBack(completed, z, checkDate) ==
    IF toISODate(checkDate) \in completed
    THEN 1 + WalkBack(completed, z, setDateBack(z, checkDate, 1))
    ELSE 0

CurrentStreak(completed, z, today) ==
    LET isActiveToday == toISODate(today) \in completed
        checkDate == IF ~isActiveToday THEN setDateBack(z, today, 1) ELSE today
    IN WalkBack(completed, z, checkDate)

RECURSIVE LongestLoop(_, _, _, _)
\* the for loop over sortedDates, from index i on
LongestLoop(sortedDates, i, longestStreak, tempStreak) ==
    IF i > Len(sortedDates) THEN Max(longestStreak, tempStreak)
    ELSE LET prev == parseISODate(sortedDates[i - 1])
             curr == parseISODate(sortedDates[i])
             diffDays == RoundDiv(curr - prev, Day)
         IN IF diffDays = 1
            THEN LongestLoop(sortedDates, i + 1, longestStreak, tempStreak + 1)
            ELSE LongestLoop(sortedDates, i + 1,
                             Max(longestStreak, tempStreak), 1)

RECURSIVE LongestLoopNoFinalMax(_, _, _, _)
\* the loop without the Math.max that follows it
LongestLoopNoFinalMax(sortedDates, i, longestStreak, tempStreak) ==
    IF i > Len(sortedDates) THEN longestStreak
    ELSE IF RoundDiv(parseISODate(sortedDates[i]) - parseISODate(sortedDates[i - 1]),
                     Day) = 1
         THEN LongestLoopNoFinalMax(sortedDates, i + 1, longestStreak, tempStreak + 1)
         ELSE LongestLoopNoFinalMax(sortedDates, i + 1,
                                    Max(longestStreak, tempStreak), 1)

LongestStreakNoFinalMax(sortedDates) == LongestLoopNoFinalMax(sortedDates, 2, 0, 1)

LongestStreak(sortedDates) == LongestLoop(sortedDates, 2, 0, 1)

calculateStreaks(id) ==
    LET habit == getHabit(id) IN
    IF habit = NoHabit THEN ZeroStreaks
    ELSE
    LET cis == getAllCheckInsForHabit(id)
        completedDates == CompletedDates(habit, cis)
    IN
    IF completedDates = {} THEN ZeroStreaks
    ELSE
    LET sortedDates == SortedDates(completedDates) IN
    [currentStreak |-> CurrentStreak(completedDates, zone, now),
     longestStreak |-> LongestStreak(sortedDates),
     lastCompletedDate |-> sortedDates[Len(sortedDates)],
     isActiveToday |-> toISODate(now) \in completedDates,
     completedDates |-> completedDates]

----------------------------------------------------------------------------
(* Heatmap generator (heatmap.ts) *)

\* the local `ratio` of calculateIntensity; NoRatio when the function
\* returns before computing it
NoRatio == [kind |-> "none", num |-> 0, den |-> 1]

intensityRatio(v, target, type) ==
    IF v = 0 THEN NoRatio
    ELSE IF type = "binary" THEN NoRatio
    ELSE Quot(v, target)

calculateIntensityHalfIsThree(v, target, type) ==
    IF v = 0 THEN 0
    ELSE IF type = "binary" THEN (IF v > 0 THEN 4 ELSE 0)
    ELSE LET ratio == Quot(v, target) IN
         IF QGe(ratio, 1, 1) THEN 4
         ELSE IF QGe(ratio, 1, 2) THEN 3
         ELSE IF QGt(ratio, 0, 1) THEN 1
         ELSE 0

calculateIntensity(v, target, type) ==
    IF v = 0 THEN 0
    ELSE IF type = "binary" THEN (IF v > 0 THEN 4 ELSE 0)
    ELSE LET ratio == Quot(v, target) IN
         IF QGe(ratio, 1, 1) THEN 4
         ELSE IF QGe(ratio, 3, 4) THEN 3
         ELSE IF QGe(ratio, 1, 2) THEN 2
         ELSE IF QGt(ratio, 0, 1) THEN 1
         ELSE 0

ZeroHeatmap ==
    [cells |-> <<>>, ratios |-> <<>>, target |-> 1, totalDays |-> 0,
     completedDays |-> 0, completionRate |-> Fin(0, 1)]

\* const values = checkIns.map(c => c.value)
ValuesOf(cis) == [i \in 1..Len(cis) |-> cis[i].value]

\* habit.targetValue ?? maxValue
intensityTarget(habit, cis) ==
    LET maxValue == IF Len(cis) > 0 THEN MaxOfSeq(ValuesOf(cis)) ELSE 1
    IN IF habit.hasTarget THEN habit.targetValue ELSE maxValue

\* the cell pushed at loop index i (i = n-1 is the oldest, i = 0 is today)
heatmapCell(habit, cis, i) ==
    LET dateStr == toISODate(setDateBack(zone, now, i))
        v == MapValueOrZero(cis, dateStr)
    IN [date |-> dateStr, value |-> v,
        intensity |-> calculateIntensity(v, intensityTarget(habit, cis), habit.type),
        completed |-> isCompletedHeatmap(habit, v)]

\* the cells pushed from today backwards
generateHeatmapDataNewestFirst(id, n) ==
    LET habit == getHabit(id) IN
    IF habit = NoHabit THEN ZeroHeatmap
    ELSE
    LET cis == getAllCheckInsForHabit(id)
        cells == [k \in 1..n |-> heatmapCell(habit, cis, k - 1)]
        completedDays == Cardinality({k \in 1..n : cells[k].completed})
    IN [cells |-> cells,
        ratios |-> [k \in 1..n |->
                      intensityRatio(cells[k].value, intensityTarget(habit, cis),
                                     habit.type)],
        target |-> intensityTarget(habit, cis),
        totalDays |-> n,
        completedDays |-> completedDays,
        completionRate |-> IF n > 0 THEN Quot(completedDays, n) ELSE Fin(0, 1)]

generateHeatmapData(id, n) ==
    LET habit == getHabit(id) IN
    IF habit = NoHabit THEN ZeroHeatmap
    ELSE
    LET cis == getAllCheckInsForHabit(id)
        cells == [k \in 1..n |-> heatmapCell(habit, cis, n - k)]
        completedDays == Cardinality({k \in 1..n : cells[k].completed})
    IN [cells |-> cells,
        ratios |-> [k \in 1..n |->
                      intensityRatio(cells[k].value, intensityTarget(habit, cis),
                                     habit.type)],
        target |-> intensityTarget(habit, cis),
        totalDays |-> n,
        completedDays |-> completedDays,
        completionRate |-> IF n > 0 THEN Quot(completedDays, n) ELSE Fin(0, 1)]

----------------------------------------------------------------------------
(* Specification SpecStreaks: the habit page computes the streaks and the  *)
(* heatmap of one habit from the same tables at the same instant           *)

MaxWindow == 3      \* the days argument ranges over 0 .. MaxWindow

\* 01:00 UTC on day MaxDay - 1: the instant the clocks of a zone with
\* daylight saving time change
TransitionHour == Day * (MaxDay - 1) + Hour

Zones ==
    { Zone(0, 0, 0), Zone(2 * Hour, 2 * Hour, 0),
      Zone(0, Hour, TransitionHour),      \* clocks go forward one hour
      Zone(Hour, 0, TransitionHour) }     \* clocks go back one hour

\* times of day: 00:00, 00:30, 12:00 and 23:30 UTC
TimesOfDay == {0, 1, 12 * Hour, 23 * Hour + 1}

Instants == { Day * d + h : d \in {MaxDay - 1, MaxDay}, h \in TimesOfDay }

StreakHabits ==
    { Habit("h1", "binary", FALSE, 0, "at_least"),
      Habit("h1", "numeric", TRUE, 2, "at_least"),
      Habit("h1", "numeric", TRUE, 0, "at_least"),
      Habit("h1", "numeric", TRUE, 1, "at_most") }

\* what the table holds for one date of the habit: nothing, or one check-in
DaySlots == { <<>>, <<1>>, <<2>> }

CheckIn(id, hid, v, d) ==
    [id |-> id, habitId |-> hid, value |-> v, effectiveDate |-> d]

RECURSIVE TableFrom(_, _, _)
\* the rows of habit hid for the days d .. MaxDay, slot[d] giving the values
TableFrom(slot, hid, d) ==
    IF d > MaxDay THEN <<>>
    ELSE [k \in 1..Len(slot[d]) |-> CheckIn(<<hid, d, k>>, hid, slot[d][k], d)]
         \o TableFrom(slot, hid, d + 1)

InitStreaks ==
    /\ pc = "input"
    /\ \E h \in StreakHabits : habits = <<h>>
    /\ \E slot \in [0..MaxDay -> DaySlots] : checkIns = TableFrom(slot, "h1", 0)
    /\ habitId = "h1"
    /\ value = 0
    /\ now \in Instants
    /\ zone \in Zones
    /\ days = 0
    /\ res = [streaks |-> ZeroStreaks, heatmap |-> ZeroHeatmap]
    /\ procs = <<>>
    /\ nextId = 0

\* calculateStreaks(habitId)
CalculateStreaks ==
    /\ pc = "input"
    /\ res' = [res EXCEPT !.streaks = calculateStreaks(habitId)]
    /\ pc' = "streaks"
    /\ UNCHANGED <<habits, checkIns, habitId, value, now, zone, days, procs, nextId>>

\* generateHeatmapData(habitId, days)
GenerateHeatmapData ==
    /\ pc = "streaks"
    /\ \E n \in 0..MaxWindow :
         /\ days' = n
         /\ res' = [res EXCEPT !.heatmap = generateHeatmapData(habitId, n)]
    /\ pc' = "done"
    /\ UNCHANGED <<habits, checkIns, habitId, value, now, zone, procs, nextId>>

NextStreaks == CalculateStreaks \/ GenerateHeatmapData

SpecStreaks == InitStreaks /\ [][NextStreaks]_vars

----------------------------------------------------------------------------
(* Rolling averages (rolling-average.ts) *)

\* p + q; fractions over one denominator keep it
\* const x = v; Body(x): v is evaluated once, before Body uses it
Const(v, Body(_)) == CHOOSE r \in { Body(x) : x \in {v} } : TRUE

QAdd(p, q) ==
    IF p.den = q.den THEN Fin(p.num + q.num, p.den)
    ELSE Fin(p.num * q.den + q.num * p.den, p.den * q.den)

\* p < q for finite p, q
QLess(p, q) == p.num * q.den < q.num * p.den

normalizeValueRolling(v, habit) ==
    IF habit.type = "binary" THEN (IF v > 0 THEN Fin(1, 1) ELSE Fin(0, 1))
    ELSE IF NoTargetValue(habit) \/ habit.targetValue = 0
         THEN (IF v > 0 THEN Fin(1, 1) ELSE Fin(0, 1))
    ELSE \* Math.min(value / habit.targetValue, 1)
         LET q == Quot(v, habit.targetValue)
         IN IF QLess(q, Fin(1, 1)) THEN q ELSE Fin(1, 1)

RECURSIVE SumQ(_)
\* values.reduce((a, b) => a + b, 0)
SumQ(qs) ==
    IF qs = <<>> THEN Fin(0, 1)
    ELSE Const(SumQ(Tail(qs)), LAMBDA rest : QAdd(Head(qs), rest))

average(qs) ==
    IF Len(qs) = 0 THEN Fin(0, 1)
    ELSE LET sum == SumQ(qs) IN Fin(sum.num, sum.den * Len(qs))

\* dates and endIndex count from 1 here, from 0 in the code
getWindowValues(dates, cis, endIndex, windowSize, habit) ==
    LET startIndex == Max(1, endIndex - windowSize + 1)
    IN [k \in 1..(endIndex - startIndex + 1) |->
          normalizeValueRolling(MapValueOrZero(cis, dates[startIndex + k - 1]),
                                habit)]

ZeroRolling ==
    [points |-> <<>>, current7 |-> Fin(0, 1), current14 |-> Fin(0, 1),
     current30 |-> Fin(0, 1)]

calculateRollingAverages(id, n) ==
    LET habit == getHabit(id) IN
    IF habit = NoHabit THEN ZeroRolling
    ELSE
    LET cis == getAllCheckInsForHabit(id)
        dates == [k \in 1..n |-> toISODate(setDateBack(zone, now, n - k))]
        points == [i \in 1..n |->
            [date |-> dates[i],
             value |-> normalizeValueRolling(MapValueOrZero(cis, dates[i]), habit),
             avg7 |-> average(getWindowValues(dates, cis, i, 7, habit)),
             avg14 |-> average(getWindowValues(dates, cis, i, 14, habit)),
             avg30 |-> average(getWindowValues(dates, cis, i, 30, habit))]]
    IN [points |-> points,
        current7 |-> IF n > 0 THEN points[n].avg7 ELSE Fin(0, 1),
        current14 |-> IF n > 0 THEN points[n].avg14 ELSE Fin(0, 1),
        current30 |-> IF n > 0 THEN points[n].avg30 ELSE Fin(0, 1)]

----------------------------------------------------------------------------
(* Momentum (momentum.ts) *)

\* an at_most habit over its target counts 0
normalizeValueMomentumDirected(v, habit) ==
    IF habit.type = "binary" THEN (IF v > 0 THEN Fin(1, 1) ELSE Fin(0, 1))
    ELSE IF NoTargetValue(habit) \/ habit.targetValue = 0
         THEN (IF v > 0 THEN Fin(1, 1) ELSE Fin(0, 1))
    ELSE IF habit.targetDirection = "at_most" /\ v > habit.targetValue
         THEN Fin(0, 1)
    ELSE LET q == Quot(v, habit.targetValue)
         IN IF QLess(q, Fin(1, 1)) THEN q ELSE Fin(1, 1)

normalizeValueMomentum(v, habit) ==
    IF habit.type = "binary" THEN (IF v > 0 THEN Fin(1, 1) ELSE Fin(0, 1))
    ELSE IF NoTargetValue(habit) \/ habit.targetValue = 0
         THEN (IF v > 0 THEN Fin(1, 1) ELSE Fin(0, 1))
    ELSE LET q == Quot(v, habit.targetValue)
         IN IF QLess(q, Fin(1, 1)) THEN q ELSE Fin(1, 1)

QMul(p, q) == Fin(p.num * q.num, p.den * q.den)
QInt(n) == Fin(n, 1)
QSub(p, q) == QAdd(p, Fin(-q.num, q.den))

RECURSIVE SumOver(_, _, _)
\* the sum of f[k] for k in lo..hi, a sequence of fractions
SumOver(f, lo, hi) ==
    IF lo > hi THEN Fin(0, 1)
    ELSE Const(SumOver(f, lo + 1, hi), LAMBDA rest : QAdd(f[lo], rest))

\* the slope of the line through the origin
linearRegressionSlopeThroughOrigin(points) ==
    LET n == Len(points) IN
    IF n = 0 THEN Fin(0, 1)
    ELSE
    Const(
      [sumXY |-> SumOver([k \in 1..n |-> QMul(QInt(points[k].x), points[k].y)], 1, n),
       sumXX |-> SumOver([k \in 1..n |-> QInt(points[k].x * points[k].x)], 1, n)],
      LAMBDA s :
        IF s.sumXX.num = 0 THEN Fin(0, 1)
        ELSE Fin(s.sumXY.num * s.sumXX.den, s.sumXY.den * s.sumXX.num))

\* the slope of linearRegression(points); points[k] = [x, y]
linearRegressionSlope(points) ==
    LET n == Len(points) IN
    IF n = 0 THEN Fin(0, 1)
    ELSE
    Const(
      [sumX |-> SumOver([k \in 1..n |-> QInt(points[k].x)], 1, n),
       sumY |-> SumOver([k \in 1..n |-> points[k].y], 1, n),
       sumXY |-> SumOver([k \in 1..n |-> QMul(QInt(points[k].x), points[k].y)], 1, n),
       sumXX |-> SumOver([k \in 1..n |-> QInt(points[k].x * points[k].x)], 1, n)],
      LAMBDA s :
        Const(
          [denominator |-> QSub(QMul(QInt(n), s.sumXX), QMul(s.sumX, s.sumX)),
           numerator |-> QSub(QMul(QInt(n), s.sumXY), QMul(s.sumX, s.sumY))],
          LAMBDA d :
            IF d.denominator.num = 0 THEN Fin(0, 1)
            ELSE \* numerator / denominator, the denominator being positive
                 Fin(d.numerator.num * d.denominator.den,
                     d.numerator.den * d.denominator.num)))

getMomentumDirection(score) ==
    IF QGt(score, 1, 10) THEN "improving"
    ELSE IF QLt(score, -1, 10) THEN "declining"
    ELSE "stable"

ZeroMomentum ==
    [score |-> Fin(0, 1), direction |-> "stable", slopePerDay |-> Fin(0, 1),
     dataPoints |-> 0, points |-> <<>>]

\* the body of calculateMomentum once the habit and its check-ins are read
momentumOf(habit, cis, windowDays) ==
    LET dataPoints == [k \in 1..windowDays |->
            [x |-> k - 1,
             y |-> normalizeValueMomentum(
                      MapValueOrZero(cis, toISODate(setDateBack(zone, now,
                                                                windowDays - k))),
                      habit)]]
    IN
    Const(linearRegressionSlope(dataPoints), LAMBDA slope :
      Const(Fin(slope.num * 50, slope.den), LAMBDA scaled :
        \* Math.max(-1, Math.min(1, slope * 50))
        Const(IF QGt(scaled, 1, 1) THEN Fin(1, 1)
              ELSE IF QLt(scaled, -1, 1) THEN Fin(-1, 1)
              ELSE scaled,
              LAMBDA normalizedScore :
                [score |-> normalizedScore,
                 direction |-> getMomentumDirection(normalizedScore),
                 slopePerDay |-> slope,
                 dataPoints |-> windowDays,
                 points |-> [k \in 1..windowDays |-> dataPoints[k].y]])))

calculateMomentum(id, windowDays) ==
    LET habit == getHabit(id) IN
    IF habit = NoHabit THEN ZeroMomentum
    ELSE momentumOf(habit, getAllCheckInsForHabit(id), windowDays)

\* windowDays: number = 30
DefaultWindowDays == 30

\* momentum.ts exports no calculateMomentumSync in this repository:
\* the synchronous form of calculateMomentum on a habit and its check-ins,
\* with the default window
calculateMomentumSync(habit, cis) == momentumOf(habit, cis, DefaultWindowDays)

----------------------------------------------------------------------------
(* Text summary (summary.ts) *)

RECURSIVE FilterSeq(_, _)
\* array.filter(keep), keep a set of the elements to keep
FilterSeq(seq, keep) ==
    IF seq = <<>> THEN <<>>
    ELSE IF Head(seq) \in keep THEN <<Head(seq)>> \o FilterSeq(Tail(seq), keep)
         ELSE FilterSeq(Tail(seq), keep)

SeqRange(seq) == { seq[k] : k \in 1..Len(seq) }

\* checkIns.filter(c => new Date(c.effectiveDate) >= startDate)
recentCheckIns(cis, startDate) ==
    FilterSeq(cis, { c \in SeqRange(cis) : parseISODate(c.effectiveDate) >= startDate })

\* the stats entry of one habit; the habit's id stands for its name
habitStats(habit, cis, n) ==
    LET startDate == setDateBack(zone, now, n)
        habitCheckIns == SelectSeqBy(recentCheckIns(cis, startDate), habit.id)
        daysWithCheckIn ==
            Cardinality({ habitCheckIns[k].effectiveDate : k \in 1..Len(habitCheckIns) })
        momentum == Const(SelectSeqBy(cis, habit.id),
                          LAMBDA own : calculateMomentumSync(habit, own))
    IN [name |-> habit.id,
        consistency |-> Quot(daysWithCheckIn, n),
        trend |-> momentum.direction]

isStrong(st) == QGe(st.consistency, 7, 10)

isImproving(st) ==
    /\ QGe(st.consistency, 4, 10)
    /\ QLt(st.consistency, 7, 10)
    /\ st.trend = "improving"

isStrugglingAnyMidRange(st) ==
    QLt(st.consistency, 4, 10)
       \/ (QLt(st.consistency, 7, 10) /\ st.trend # "improving")

isStruggling(st) ==
    QLt(st.consistency, 4, 10)
       \/ (QLt(st.consistency, 7, 10) /\ st.trend = "declining")

\* one element more than slice(0, k)
FirstKAndOneMore(seq, k) == SubSeq(seq, 1, Min(k + 1, Len(seq)))

\* names.slice(0, k)
FirstK(seq, k) == SubSeq(seq, 1, Min(k, Len(seq)))

NamesOf(stats) == [k \in 1..Len(stats) |-> stats[k].name]

NoSummaryDetail == [stats |-> <<>>, strong |-> <<>>, improving |-> <<>>,
                    struggling |-> <<>>]

\* the summary of a non-empty habit list and a non-empty check-in list
summaryOfStats(hs, cis, n) ==
    Const([k \in 1..Len(hs) |-> habitStats(hs[k], cis, n)], LAMBDA stats :
    Const([stats |-> stats,
           strong |-> FilterSeq(stats, { st \in SeqRange(stats) : isStrong(st) }),
           improving |->
               FilterSeq(stats, { st \in SeqRange(stats) : isImproving(st) }),
           struggling |->
               FilterSeq(stats, { st \in SeqRange(stats) : isStruggling(st) })],
          LAMBDA detail :
    LET strong == detail.strong
        improving == detail.improving
        struggling == detail.struggling
        strongPart ==
            IF Len(strong) > 0
            THEN <<[sentence |-> "doing_great",
                    names |-> FirstK(NamesOf(strong), 3),
                    others |-> IF Len(strong) > 3 THEN Len(strong) - 3 ELSE 0]>>
            ELSE <<>>
        improvingPart ==
            IF Len(improving) > 0
            THEN <<[sentence |-> "building_momentum",
                    names |-> FirstK(NamesOf(improving), 2)]>>
            ELSE <<>>
        strugglingPart ==
            IF Len(struggling) > 0
            THEN IF Len(strong) = 0 /\ Len(improving) = 0
                 THEN <<[sentence |-> "pick_one_habit", names |-> <<struggling[1].name>>]>>
                 ELSE <<[sentence |-> "more_attention", names |-> <<struggling[1].name>>]>>
            ELSE <<>>
        parts == strongPart \o improvingPart \o strugglingPart
    IN IF Len(strong) > 0 /\ Len(strong) = Len(hs)
       THEN [text |-> <<[sentence |-> "crushing_it"]>>] @@ detail
       ELSE IF Len(parts) = 0
       THEN [text |-> <<[sentence |-> "balanced_mix"]>>] @@ detail
       ELSE [text |-> parts] @@ detail))

\* the check-in list is looked at before the habit list
generateTextSummaryActivityFirst(hs, cis, n) ==
    IF Len(cis) = 0
    THEN [text |-> <<[sentence |-> "no_activity"]>>] @@ NoSummaryDetail
    ELSE IF Len(hs) = 0
    THEN [text |-> <<[sentence |-> "no_habits"]>>] @@ NoSummaryDetail
    ELSE summaryOfStats(hs, cis, n)

\* the string returned, as the sentence chosen and the names it carries,
\* with the locals stats, strong, improving and struggling
generateTextSummary(hs, cis, n) ==
    IF Len(hs) = 0
    THEN [text |-> <<[sentence |-> "no_habits"]>>] @@ NoSummaryDetail
    ELSE IF Len(cis) = 0
    THEN [text |-> <<[sentence |-> "no_activity"]>>] @@ NoSummaryDetail
    ELSE summaryOfStats(hs, cis, n)

----------------------------------------------------------------------------
(* Specification SpecPredicate: one call of each copy of isCompleted *)

NoZone == [off0 |-> 0, off1 |-> 0, trans |-> 0]

InitPredicate ==
    /\ pc = "predicate"
    /\ \E h \in HabitDomain("h1") : habits = <<h>>
    /\ value \in (-1)..MaxValue
    /\ checkIns = <<>>
    /\ habitId = "h1"
    /\ now = 0
    /\ zone = NoZone
    /\ days = 0
    /\ res = None
    /\ procs = <<>>
    /\ nextId = 0

\* isCompleted(habit, c.value) in calculateStreaks and
\* isCompleted(habit, value) in generateHeatmapData, on the same arguments
EvalIsCompleted ==
    /\ pc = "predicate"
    /\ res' = [streaks |-> isCompletedStreaks(habits[1], value),
               heatmap |-> isCompletedHeatmap(habits[1], value)]
    /\ pc' = "evaluated"
    /\ UNCHANGED <<habits, checkIns, habitId, value, now, zone, days, procs, nextId>>

NextPredicate == EvalIsCompleted

SpecPredicate == InitPredicate /\ [][NextPredicate]_vars

----------------------------------------------------------------------------
(* C1: for every habit and every value <= 0 the completion predicate       *)
(* returns false (stated of both copies).                                  *)
C1_NonPositiveNeverComplete ==
    (pc = "evaluated" /\ value <= 0) =>
        (res.streaks = FALSE /\ res.heatmap = FALSE)

(* C2 as claimed: with a targetValue present (any number >= 0) and a value *)
(* > 0 the predicate is value >= target (at_least), value <= target        *)
(* (at_most), value = target (exactly); with no targetValue it is          *)
(* value > 0.                                                              *)
C2_DirectionBranchesAnyTarget ==
    (pc = "evaluated") =>
        LET h == habits[1] IN
        /\ (h.hasTarget /\ value > 0 /\ h.targetDirection = "at_least")
              => (res.streaks = (value >= h.targetValue))
        /\ (h.hasTarget /\ value > 0 /\ h.targetDirection = "at_most")
              => (res.streaks = (value <= h.targetValue))
        /\ (h.hasTarget /\ value > 0 /\ h.targetDirection = "exactly")
              => (res.streaks = (value = h.targetValue))
        /\ (~h.hasTarget) => (res.streaks = (value > 0))

(* C2 amended: the same, for a targetValue that is present and not 0; a    *)
(* targetValue of 0 counts as no target: the predicate is then value > 0.  *)
C2_DirectionBranchesNonZeroTarget ==
    (pc = "evaluated") =>
        LET h == habits[1] IN
        /\ (h.hasTarget /\ h.targetValue # 0 /\ value > 0
               /\ h.targetDirection = "at_least")
              => (res.streaks = (value >= h.targetValue))
        /\ (h.hasTarget /\ h.targetValue # 0 /\ value > 0
               /\ h.targetDirection = "at_most")
              => (res.streaks = (value <= h.targetValue))
        /\ (h.hasTarget /\ h.targetValue # 0 /\ value > 0
               /\ h.targetDirection = "exactly")
              => (res.streaks = (value = h.targetValue))
        /\ ((~h.hasTarget) \/ h.targetValue = 0)
              => (res.streaks = (value > 0))

\* an at_most habit with a target, met exactly at the target
C2_Witness ==
    /\ pc = "evaluated"
    /\ habits[1].hasTarget /\ habits[1].targetValue = 2
    /\ habits[1].targetDirection = "at_most"
    /\ value = 2
    /\ res.streaks = TRUE

(* C6, first half: the two copies of isCompleted return the same result    *)
(* for every habit and value.                                              *)
C6_PredicatesAgree ==
    (pc = "evaluated") => (res.streaks = res.heatmap)

----------------------------------------------------------------------------
(* Specification SpecRolling: calculateRollingAverages of one habit *)

MaxRollingDays == 8   \* the days argument ranges over 0 .. MaxRollingDays
RollingSpan == 3      \* the table holds check-ins of the last RollingSpan days

RollingHabits ==
    { Habit("h1", "binary", FALSE, 0, "at_least"),
      Habit("h1", "numeric", FALSE, 0, "at_least"),
      Habit("h1", "numeric", TRUE, 0, "at_most"),
      Habit("h1", "numeric", TRUE, 2, "at_most") }

RollingSlots == { <<>>, <<-1>>, <<1>>, <<3>> }

InitRolling ==
    /\ pc = "rolling_input"
    /\ \E h \in RollingHabits : habits = <<h>>
    /\ \E slot \in [(MaxDay - RollingSpan + 1)..MaxDay -> RollingSlots] :
          checkIns = TableFrom(slot, "h1", MaxDay - RollingSpan + 1)
    /\ habitId = "h1"
    /\ value = 0
    /\ now \in { Day * MaxDay + h : h \in TimesOfDay }
    /\ zone \in Zones
    /\ days = 0
    /\ res = ZeroRolling
    /\ procs = <<>>
    /\ nextId = 0

\* calculateRollingAverages(habitId, days)
CalculateRollingAverages ==
    /\ pc = "rolling_input"
    /\ \E n \in 0..MaxRollingDays :
         /\ days' = n
         /\ res' = calculateRollingAverages(habitId, n)
    /\ pc' = "rolling_done"
    /\ UNCHANGED <<habits, checkIns, habitId, value, now, zone, procs, nextId>>

NextRolling == CalculateRollingAverages

SpecRolling == InitRolling /\ [][NextRolling]_vars

----------------------------------------------------------------------------
(* Specification SpecSummary: generateTextSummary of the profile page *)

SummarySpan == 4      \* recent check-ins lie in the last SummarySpan days

\* today in the summary runs: late enough for a 30-day momentum window
SummaryToday == DefaultWindowDays + 1

\* let timeRange = $state<7 | 14 | 30>(7), and the arguments 0 and
\* SummarySpan a caller may pass
SummaryDays == {0, SummarySpan, 7}

\* the dates a habit has check-ins on: any of the last SummarySpan days,
\* with or without a block at the old end or in the middle of the
\* momentum window
OldBlocks ==
    { {},
      { SummaryToday - DefaultWindowDays + 1, SummaryToday - DefaultWindowDays + 2 },
      { SummaryToday - 15, SummaryToday - 14, SummaryToday - 13, SummaryToday - 12 },
      (SummaryToday - DefaultWindowDays + 1)..(SummaryToday - DefaultWindowDays + 6) }

SummaryDateSets ==
    { recent \cup old :
        recent \in SUBSET ((SummaryToday - SummarySpan + 1)..SummaryToday),
        old \in OldBlocks }

\* one check-in of value 1 on each date of D
RowsOf(hid, D) ==
    LET ds == SortedDates(D)
    IN [k \in 1..Len(ds) |-> CheckIn(<<hid, ds[k], 1>>, hid, 1, ds[k])]

SummaryHabit(id) == Habit(id, "binary", FALSE, 0, "at_least")

InitSummary ==
    /\ pc = "summary_input"
    /\ \/ /\ habits = <<>>
          /\ checkIns \in { <<>>, RowsOf("h1", {SummaryToday}) }
       \/ /\ habits = <<SummaryHabit("h1")>>
          /\ \E D \in SummaryDateSets : checkIns = RowsOf("h1", D)
       \/ /\ habits = <<SummaryHabit("h1"), SummaryHabit("h2")>>
          /\ \E D1 \in SummaryDateSets :
             \E D2 \in { {}, {SummaryToday},
                         (SummaryToday - SummarySpan + 1)..SummaryToday } :
                checkIns = RowsOf("h1", D1) \o RowsOf("h2", D2)
    /\ habitId = "h1"
    /\ value = 0
    /\ now \in { Day * SummaryToday + h : h \in {1, 12 * Hour} }
    /\ zone \in { Zone(0, 0, 0), Zone(2 * Hour, 2 * Hour, 0) }
    /\ days \in SummaryDays
    /\ res = [text |-> <<>>] @@ NoSummaryDetail
    /\ procs = <<>>
    /\ nextId = 0

\* generateTextSummary(habits, checkIns, timeRange)
GenerateTextSummary ==
    /\ pc = "summary_input"
    /\ res' = generateTextSummary(habits, checkIns, days)
    /\ pc' = "summary_done"
    /\ UNCHANGED <<habits, checkIns, habitId, value, now, zone, days, procs, nextId>>

NextSummary == GenerateTextSummary

SpecSummary == InitSummary /\ [][NextSummary]_vars

----------------------------------------------------------------------------
(* Specification SpecStore: the check-in operations of db/checkins.ts and  *)
(* data/checkins.ts on the check-in table, interleaved at their awaits     *)

MaxRows == 3        \* the table holds at most MaxRows check-ins
MaxProcs == 2       \* at most MaxProcs operations are in flight at once
MaxIds == 3         \* generateId() is called at most MaxIds times

StoreHabits == {"h1", "h2"}
StoreDates == {0, 1}
StoreValues == {1, 2}

Idle == [op |-> "idle", habitId |-> None, date |-> 0, existing |-> 0]

\* db.checkIns.where('[habitId+effectiveDate]').equals([h, d]).first(), and
\* (await getCheckInsForDate(date)).find(c => c.habitId === habitId):
\* the id of the first row of the habit on that date, 0 when there is none
FirstRowOf(h, d) ==
    LET hits == { k \in 1..Len(checkIns) :
                    checkIns[k].habitId = h /\ checkIns[k].effectiveDate = d }
    IN IF hits = {} THEN 0
       ELSE checkIns[CHOOSE k \in hits : \A j \in hits : k <= j].id

\* db.checkIns.add(checkIn) with a fresh id: the index on
\* [habitId+effectiveDate] is not unique, the add never fails on it
AddRow(h, v, d) == Append(checkIns, CheckIn(nextId + 1, h, v, d))

\* db.checkIns.delete(id)
DeleteRow(id) ==
    FilterSeq(checkIns, { c \in SeqRange(checkIns) : c.id # id })

\* db.checkIns.update(id, {value})
UpdateRow(id, v) ==
    [k \in 1..Len(checkIns) |->
        IF checkIns[k].id = id THEN [checkIns[k] EXCEPT !.value = v]
        ELSE checkIns[k]]

InitStore ==
    /\ pc = "store"
    /\ habits = <<>>
    /\ checkIns = <<>>
    /\ habitId = None
    /\ value = 0
    /\ now = 0
    /\ zone = NoZone
    /\ days = 0
    /\ res = None
    /\ procs = [p \in 1..MaxProcs |-> Idle]
    /\ nextId = 0

StoreUnchanged == UNCHANGED <<pc, habits, habitId, value, now, zone, days, res>>

\* createCheckIn(input), of both layers
CreateCheckIn ==
    /\ pc = "store"
    /\ Len(checkIns) < MaxRows
    /\ nextId < MaxIds
    /\ \E h \in StoreHabits, d \in StoreDates, v \in StoreValues :
          checkIns' = AddRow(h, v, d)
    /\ nextId' = nextId + 1
    /\ UNCHANGED procs
    /\ StoreUnchanged

\* updateCheckIn(id, {value})
UpdateCheckIn ==
    /\ pc = "store"
    /\ \E k \in 1..Len(checkIns), v \in StoreValues :
          checkIns' = UpdateRow(checkIns[k].id, v)
    /\ UNCHANGED <<procs, nextId>>
    /\ StoreUnchanged

\* deleteCheckIn(id)
DeleteCheckIn ==
    /\ pc = "store"
    /\ \E k \in 1..Len(checkIns) : checkIns' = DeleteRow(checkIns[k].id)
    /\ UNCHANGED <<procs, nextId>>
    /\ StoreUnchanged

\* toggleBinaryCheckIn(habitId, date) of db/checkins.ts up to its first
\* await: const existing = await getCheckIn(habitId, date)
ToggleRead ==
    /\ pc = "store"
    /\ \E p \in 1..MaxProcs, h \in StoreHabits, d \in StoreDates :
          /\ procs[p].op = "idle"
          /\ procs' = [procs EXCEPT ![p] =
                [op |-> "toggle", habitId |-> h, date |-> d,
                 existing |-> FirstRowOf(h, d)]]
    /\ UNCHANGED <<checkIns, nextId>>
    /\ StoreUnchanged

\* ... and after it: deleteCheckIn(existing.id), or createCheckIn of value 1
ToggleWrite ==
    /\ pc = "store"
    /\ \E p \in 1..MaxProcs :
          /\ procs[p].op = "toggle"
          /\ IF procs[p].existing # 0
             THEN /\ checkIns' = DeleteRow(procs[p].existing)
                  /\ nextId' = nextId
             ELSE /\ Len(checkIns) < MaxRows
                  /\ nextId < MaxIds
                  /\ checkIns' = AddRow(procs[p].habitId, 1, procs[p].date)
                  /\ nextId' = nextId + 1
          /\ procs' = [procs EXCEPT ![p] = Idle]
    /\ StoreUnchanged

\* toggleBinaryCheckIn(habitId, date) of data/checkins.ts up to its first
\* await: the check-ins of the date, and the one of the habit among them
DataToggleRead ==
    /\ pc = "store"
    /\ \E p \in 1..MaxProcs, h \in StoreHabits, d \in StoreDates :
          /\ procs[p].op = "idle"
          /\ procs' = [procs EXCEPT ![p] =
                [op |-> "data_toggle", habitId |-> h, date |-> d,
                 existing |-> FirstRowOf(h, d)]]
    /\ UNCHANGED <<checkIns, nextId>>
    /\ StoreUnchanged

\* ... and after it: dataLayer.deleteCheckIn or dataLayer.createCheckIn
DataToggleWrite ==
    /\ pc = "store"
    /\ \E p \in 1..MaxProcs :
          /\ procs[p].op = "data_toggle"
          /\ IF procs[p].existing # 0
             THEN /\ checkIns' = DeleteRow(procs[p].existing)
                  /\ nextId' = nextId
             ELSE /\ Len(checkIns) < MaxRows
                  /\ nextId < MaxIds
                  /\ checkIns' = AddRow(procs[p].habitId, 1, procs[p].date)
                  /\ nextId' = nextId + 1
          /\ procs' = [procs EXCEPT ![p] = Idle]
    /\ StoreUnchanged

NextToggles == ToggleRead \/ ToggleWrite \/ DataToggleRead \/ DataToggleWrite

NextStore == CreateCheckIn \/ UpdateCheckIn \/ DeleteCheckIn \/ NextToggles

SpecStore == InitStore /\ [][NextStore]_vars

\* the toggles alone: no direct createCheckIn
SpecToggles == InitStore /\ [][NextToggles]_vars

----------------------------------------------------------------------------
(* Specification SpecCompletion: the predicate calls and the habit page    *)

SpecCompletion ==
    (InitPredicate \/ InitStreaks) /\ [][NextPredicate \/ NextStreaks]_vars

----------------------------------------------------------------------------
(* Reference definitions the streak claims are stated with *)

StreaksDone == pc \in {"streaks", "done"}

\* the calendar day the code takes for today (todayStr)
Today == toISODate(now)

\* the number of consecutive dates d, d-1, d-2, ... in S, up to the first
\* date that is not in S
RunEndingAt(S, d) ==
    CHOOSE n \in 0..(MaxDay + 2) :
        /\ \A k \in 0..(n - 1) : (d - k) \in S
        /\ (d - n) \notin S

\* the length of the longest run of consecutive dates in S
LongestRun(S) ==
    CHOOSE n \in 0..(MaxDay + 2) :
        /\ \E d \in S \cup {0} : RunEndingAt(S, d) = n
        /\ \A d \in S : RunEndingAt(S, d) <= n

IsFixedZone(z) == z.off0 = z.off1

(* C3: isActiveToday holds exactly when today is a completed date, and     *)
(* currentStreak is the number of consecutive completed dates counted back *)
(* from today if isActiveToday, else from yesterday, up to the first date  *)
(* that is not completed.                                                  *)
C3_CurrentStreakCountsBack ==
    StreaksDone =>
        LET S == res.streaks.completedDates IN
        /\ res.streaks.isActiveToday = (Today \in S)
        /\ res.streaks.currentStreak =
              RunEndingAt(S, IF Today \in S THEN Today ELSE Today - 1)

\* C3 on a device whose zone has no clock change in the window
C3_CurrentStreakCountsBackFixedZone ==
    (StreaksDone /\ IsFixedZone(zone)) =>
        LET S == res.streaks.completedDates IN
        /\ res.streaks.isActiveToday = (Today \in S)
        /\ res.streaks.currentStreak =
              RunEndingAt(S, IF Today \in S THEN Today ELSE Today - 1)

(* C4: calculateStreaks returns longestStreak >= currentStreak.            *)
C4_LongestAtLeastCurrent ==
    StreaksDone => (res.streaks.longestStreak >= res.streaks.currentStreak)

\* C4 on a device whose zone has no clock change in the window
C4_LongestAtLeastCurrentFixedZone ==
    (StreaksDone /\ IsFixedZone(zone)) =>
        (res.streaks.longestStreak >= res.streaks.currentStreak)

(* C5: longestStreak is the length of the longest run of                   *)
(* calendar-consecutive dates in the completed-date set: at least 1 when   *)
(* any date is complete, exactly 1 for a single isolated completed day.    *)
C5_LongestIsLongestRun ==
    StreaksDone =>
        LET S == res.streaks.completedDates IN
        /\ res.streaks.longestStreak = LongestRun(S)
        /\ (S # {}) => (res.streaks.longestStreak >= 1)
        /\ (Cardinality(S) = 1) => (res.streaks.longestStreak = 1)

\* completed dates {.., d, d+1, gap, d+3}: a run of 2, then an isolated day
C5_Witness ==
    /\ StreaksDone
    /\ res.streaks.completedDates = {0, 1, 3}
    /\ res.streaks.longestStreak = 2

AtMostOnePerDate(cis) ==
    \A i, j \in 1..Len(cis) :
        (cis[i].habitId = cis[j].habitId
           /\ cis[i].effectiveDate = cis[j].effectiveDate) => (i = j)

(* C6: the streak calculator and the heatmap generator decide completion   *)
(* with the same predicate: the two isCompleted functions agree on every   *)
(* habit and value, and (with at most one check-in per date) a heatmap     *)
(* cell is complete exactly when its date is in the streak calculator's    *)
(* set of completed dates.                                                 *)
C6_SamePredicate ==
    /\ (pc = "evaluated") => (res.streaks = res.heatmap)
    /\ (pc = "done" /\ AtMostOnePerDate(checkIns)) =>
          \A k \in 1..Len(res.heatmap.cells) :
              res.heatmap.cells[k].completed =
                 (res.heatmap.cells[k].date \in res.streaks.completedDates)

\* an at_most habit: a day over the target has a cell that is not complete,
\* a day within the target one that is
C6_Witness ==
    /\ pc = "done"
    /\ habits[1].targetDirection = "at_most"
    /\ Len(res.heatmap.cells) = 2
    /\ res.heatmap.cells[1].value = 2 /\ ~res.heatmap.cells[1].completed
    /\ res.heatmap.cells[2].value = 1 /\ res.heatmap.cells[2].completed
    /\ res.heatmap.cells[2].date \in res.streaks.completedDates

(* C8: no analytic component produces NaN or Infinity; every division by   *)
(* a divisor that can be zero is guarded (here: the intensity ratio and    *)
(* the completion rate of generateHeatmapData).                            *)
C8_NoNaNOrInfinity ==
    (pc = "done") =>
        /\ IsFinite(res.heatmap.completionRate)
        /\ \A k \in 1..Len(res.heatmap.ratios) :
              res.heatmap.ratios[k].kind \in {"fin", "none"}

----------------------------------------------------------------------------
(* Claims on the rolling averages and the text summary *)

InUnitInterval(q) == IsFinite(q) /\ QGe(q, 0, 1) /\ ~QGt(q, 1, 1)

(* C7: the normalized per-day value lies in [0, 1] for every habit and     *)
(* recorded value, and so does every avg7, avg14, avg30 of every point of  *)
(* calculateRollingAverages and current7, current14, current30.            *)
C7_NormalizedInUnitInterval ==
    (pc = "rolling_done") =>
        /\ \A k \in 1..Len(res.points) :
              /\ InUnitInterval(res.points[k].value)
              /\ InUnitInterval(res.points[k].avg7)
              /\ InUnitInterval(res.points[k].avg14)
              /\ InUnitInterval(res.points[k].avg30)
        /\ InUnitInterval(res.current7)
        /\ InUnitInterval(res.current14)
        /\ InUnitInterval(res.current30)

\* C7 when no check-in of the table has a negative value
C7_NormalizedInUnitIntervalNonNegative ==
    (pc = "rolling_done" /\ \A k \in 1..Len(checkIns) : checkIns[k].value >= 0)
       => C7_NormalizedInUnitInterval

MidRange(st) == QGe(st.consistency, 4, 10) /\ QLt(st.consistency, 7, 10)

(* C9 as claimed: every habit falls in exactly one of three classes:       *)
(* strong when consistency >= 0.7, improving when 0.4 <= consistency < 0.7 *)
(* and the momentum is improving, struggling in every other case.          *)
C9_ThreeClassesCoverAll ==
    (pc = "summary_done") =>
        \A k \in 1..Len(res.stats) :
            LET st == res.stats[k]
                inStrong == st \in SeqRange(res.strong)
                inImproving == st \in SeqRange(res.improving)
                inStruggling == st \in SeqRange(res.struggling)
            IN /\ inStrong = QGe(st.consistency, 7, 10)
               /\ inImproving = (MidRange(st) /\ st.trend = "improving")
               /\ inStruggling = (~inStrong /\ ~inImproving)

(* C9 amended: strong when consistency >= 0.7; improving when              *)
(* 0.4 <= consistency < 0.7 and the momentum is improving; struggling when *)
(* consistency < 0.4, or 0.4 <= consistency < 0.7 and the momentum is      *)
(* declining; a habit with 0.4 <= consistency < 0.7 and stable momentum is *)
(* in none of the three classes; no habit is in two classes.               *)
C9_ThreeClassesAndUnclassified ==
    (pc = "summary_done") =>
        \A k \in 1..Len(res.stats) :
            LET st == res.stats[k]
                inStrong == st \in SeqRange(res.strong)
                inImproving == st \in SeqRange(res.improving)
                inStruggling == st \in SeqRange(res.struggling)
            IN /\ inStrong = QGe(st.consistency, 7, 10)
               /\ inImproving = (MidRange(st) /\ st.trend = "improving")
               /\ inStruggling = (QLt(st.consistency, 4, 10)
                                    \/ (MidRange(st) /\ st.trend = "declining"))
               /\ (MidRange(st) /\ st.trend = "stable")
                     => (~inStrong /\ ~inImproving /\ ~inStruggling)
               /\ Cardinality({ c \in {"s", "i", "g"} :
                                  \/ (c = "s" /\ inStrong)
                                  \/ (c = "i" /\ inImproving)
                                  \/ (c = "g" /\ inStruggling) }) <= 1

\* a habit with mid-range consistency and stable momentum, in no class, and
\* the summary that then falls back to the balanced-mix sentence
C9_Witness ==
    /\ pc = "summary_done"
    /\ Len(res.stats) = 1
    /\ MidRange(res.stats[1]) /\ res.stats[1].trend = "stable"
    /\ res.strong = <<>> /\ res.improving = <<>> /\ res.struggling = <<>>
    /\ res.text = <<[sentence |-> "balanced_mix"]>>

\* every class and the unclassified case occur
C9_WitnessDeclining ==
    /\ pc = "summary_done"
    /\ Len(res.stats) = 1
    /\ MidRange(res.stats[1]) /\ res.stats[1].trend = "declining"

C9_WitnessImproving ==
    /\ pc = "summary_done"
    /\ Len(res.stats) = 1
    /\ MidRange(res.stats[1]) /\ res.stats[1].trend = "improving"

C9_WitnessStrong ==
    /\ pc = "summary_done"
    /\ Len(res.stats) = 2
    /\ Len(res.strong) = 1

\* the consistency of generateTextSummary is a finite number
C8_ConsistencyFinite ==
    (pc = "summary_done") =>
        \A k \in 1..Len(res.stats) : IsFinite(res.stats[k].consistency)

----------------------------------------------------------------------------
(* Claims on the check-in store *)

(* C10: after any sequence and interleaving of createCheckIn,              *)
(* toggleBinaryCheckIn, updateCheckIn and deleteCheckIn calls the table    *)
(* holds at most one check-in per (habitId, effectiveDate).                *)
C10_AtMostOnePerHabitDate == AtMostOnePerDate(checkIns)

----------------------------------------------------------------------------
(* Specification SpecHeatmap: generateHeatmapData of one habit, on tables  *)
(* that also hold values below 1                                           *)

HeatSpan == 3       \* the table holds check-ins of the last HeatSpan days

HeatTarget == MaxTarget + 1

HeatHabits ==
    { Habit("h1", "binary", FALSE, 0, "at_least"),
      Habit("h1", "numeric", FALSE, 0, "at_least"),
      Habit("h1", "numeric", TRUE, HeatTarget, "at_least"),
      Habit("h1", "duration", TRUE, 2, "at_most") }

HeatSlots == { <<>> } \cup { <<v>> : v \in (-1)..MaxValue }

InitHeatmap ==
    /\ pc = "heatmap_input"
    /\ \E h \in HeatHabits : habits = <<h>>
    /\ \E slot \in [(MaxDay - HeatSpan + 1)..MaxDay -> HeatSlots] :
          checkIns = TableFrom(slot, "h1", MaxDay - HeatSpan + 1)
    /\ habitId = "h1"
    /\ value = 0
    /\ now \in { Day * MaxDay + h : h \in {1, 12 * Hour} }
    /\ zone \in { Zone(0, 0, 0), Zone(2 * Hour, 2 * Hour, 0) }
    /\ days = 0
    /\ res = ZeroHeatmap
    /\ procs = <<>>
    /\ nextId = 0

\* generateHeatmapData(habitId, days)
HeatmapOfHabit ==
    /\ pc = "heatmap_input"
    /\ \E n \in 0..MaxWindow :
         /\ days' = n
         /\ res' = generateHeatmapData(habitId, n)
    /\ pc' = "heatmap_done"
    /\ UNCHANGED <<habits, checkIns, habitId, value, now, zone, procs, nextId>>

NextHeatmap == HeatmapOfHabit

SpecHeatmap == InitHeatmap /\ [][NextHeatmap]_vars

----------------------------------------------------------------------------
(* Claims on the heatmap *)

\* the largest value among the recorded check-ins of the habit, or 1 if
\* that is larger (1 when nothing is recorded)
LargestValueOrOne(cis) ==
    IF Len(cis) = 0 THEN 1
    ELSE LET m == CHOOSE v \in SeqRange(ValuesOf(cis)) :
                     \A w \in SeqRange(ValuesOf(cis)) : w <= v
         IN IF m >= 1 THEN m ELSE 1

(* C11: a habit with no targetValue gets target = max(largest recorded     *)
(* value, 1) as the denominator of the intensity ratio; a habit with a     *)
(* targetValue gets that targetValue.                                      *)
C11_TargetIsLargestValueOrOne ==
    (pc = "heatmap_done" /\ habits[1].type = "numeric") =>
        LET h == habits[1] IN
        res.target = IF h.hasTarget THEN h.targetValue
                     ELSE LargestValueOrOne(getAllCheckInsForHabit("h1"))

\* C11 on tables whose values are all 1 or more
C11_TargetIsLargestValueFromOne ==
    (/\ pc = "heatmap_done" /\ habits[1].type = "numeric"
     /\ \A k \in 1..Len(checkIns) : checkIns[k].value >= 1) =>
        LET h == habits[1] IN
        res.target = IF h.hasTarget THEN h.targetValue
                     ELSE LargestValueOrOne(getAllCheckInsForHabit("h1"))

\* the bucket as claimed, of the raw value and the target
BucketOf(type, v, target) ==
    IF type = "binary" THEN (IF v > 0 THEN 4 ELSE 0)
    ELSE LET ratio == Quot(v, target) IN
         IF QGe(ratio, 1, 1) THEN 4
         ELSE IF QGe(ratio, 3, 4) THEN 3
         ELSE IF QGe(ratio, 1, 2) THEN 2
         ELSE IF QGt(ratio, 0, 1) THEN 1
         ELSE 0

\* p <= q for two quotients; false when either is NaN
RatioLeq(p, q) ==
    CASE p.kind = "NaN" \/ q.kind = "NaN" -> FALSE
      [] p.kind = "-Infinity" \/ q.kind = "Infinity" -> TRUE
      [] p.kind = "Infinity" \/ q.kind = "-Infinity" -> FALSE
      [] OTHER -> p.num * q.den <= q.num * p.den

(* C12: the intensity of every cell is 4 if rawValue > 0 else 0 for a      *)
(* binary habit; for another habit, with ratio = rawValue / target, it is  *)
(* 4 if ratio >= 1, 3 if ratio >= 0.75, 2 if ratio >= 0.5, 1 if ratio > 0, *)
(* else 0. It is in 0..4, non-decreasing in the ratio, and 0 or 4 for a    *)
(* binary habit.                                                           *)
C12_IntensityBuckets ==
    (pc = "heatmap_done") =>
        LET h == habits[1]
            cells == res.cells
        IN /\ \A k \in 1..Len(cells) :
                /\ cells[k].intensity = BucketOf(h.type, cells[k].value, res.target)
                /\ cells[k].intensity \in 0..4
                /\ (h.type = "binary") => (cells[k].intensity \in {0, 4})
           /\ (h.type # "binary") =>
                \A j, k \in 1..Len(cells) :
                    RatioLeq(Quot(cells[j].value, res.target),
                             Quot(cells[k].value, res.target))
                       => (cells[j].intensity <= cells[k].intensity)

\* ratios 1/4, 2/4 and 3/4 of the target in one window: buckets 1, 2 and 3
C12_Witness ==
    /\ pc = "heatmap_done"
    /\ habits[1].type = "numeric" /\ res.target = HeatTarget
    /\ Len(res.cells) = 3
    /\ { <<res.cells[k].value, res.cells[k].intensity>> : k \in 1..3 }
          = { <<1, 1>>, <<2, 2>>, <<3, 3>> }

\* a value that reaches the target (bucket 4) and a binary habit's 0 and 4
C12_WitnessFull ==
    /\ pc = "heatmap_done"
    /\ \E k \in 1..Len(res.cells) :
          res.cells[k].intensity = 4 /\ habits[1].type = "numeric"

----------------------------------------------------------------------------
(* Correlations (heuristics.ts) *)

\* checkInsByDate: the dates with a check-in, each with the set of the
\* habits checked in on it
checkInsByDate(cis) ==
    [d \in { cis[k].effectiveDate : k \in 1..Len(cis) } |->
        { cis[k].habitId : k \in { m \in 1..Len(cis) : cis[m].effectiveDate = d } }]

\* p / q for finite p and q, q > 0
QDiv(p, q) == Fin(p.num * q.den, p.den * q.num)

\* Math.min(1, q)
MinOne(q) == IF QLess(q, Fin(1, 1)) THEN q ELSE Fin(1, 1)

\* (p * 100).toFixed(0), p = n / d >= 0
toFixedPercent(n, d) == RoundDiv(100 * n, d)

Correlation(hA, hB, lift, totalDays, pct) ==
    [habitA |-> hA.id, habitB |-> hB.id, score |-> lift,
     confidence |-> MinOne(Fin(totalDays, 30)),
     description |-> [when |-> hA.id, percent |-> pct, also |-> hB.id]]

\* the body of the loop over the pairs, as the correlations it pushes;
\* emits both directions when both conditionals pass
correlationsOfPairBothDirections(hA, hB, byDate) ==
    LET dates == DOMAIN byDate
        totalDays == Cardinality(dates)
        aCount == Cardinality({ d \in dates : hA.id \in byDate[d] })
        bCount == Cardinality({ d \in dates : hB.id \in byDate[d] })
        bothCount ==
            Cardinality({ d \in dates : hA.id \in byDate[d] /\ hB.id \in byDate[d] })
        pB == Fin(bCount, totalDays)
        union == aCount + bCount - bothCount
        probBgivenA == IF aCount > 0 THEN Fin(bothCount, aCount) ELSE Fin(0, 1)
        lift == IF bCount > 0 THEN QDiv(probBgivenA, pB) ELSE Fin(0, 1)
        probAgivenB == IF bCount > 0 THEN Fin(bothCount, bCount) ELSE Fin(0, 1)
    IN IF union = 0 THEN <<>>
       ELSE IF aCount > 5 /\ bCount > 5 /\ QGt(lift, 3, 2)
       THEN (IF QGt(probBgivenA, 6, 10)
             THEN <<Correlation(hA, hB, lift, totalDays,
                                toFixedPercent(bothCount, aCount))>>
             ELSE <<>>)
            \o (IF QGt(probAgivenB, 6, 10)
                THEN <<Correlation(hB, hA, lift, totalDays,
                                   toFixedPercent(bothCount, bCount))>>
                ELSE <<>>)
       ELSE <<>>

\* a conditional probability of 0.5 is enough
correlationsOfPairHalf(hA, hB, byDate) ==
    LET dates == DOMAIN byDate
        totalDays == Cardinality(dates)
        aCount == Cardinality({ d \in dates : hA.id \in byDate[d] })
        bCount == Cardinality({ d \in dates : hB.id \in byDate[d] })
        bothCount ==
            Cardinality({ d \in dates : hA.id \in byDate[d] /\ hB.id \in byDate[d] })
        pB == Fin(bCount, totalDays)
        union == aCount + bCount - bothCount
        probBgivenA == IF aCount > 0 THEN Fin(bothCount, aCount) ELSE Fin(0, 1)
        lift == IF bCount > 0 THEN QDiv(probBgivenA, pB) ELSE Fin(0, 1)
        probAgivenB == IF bCount > 0 THEN Fin(bothCount, bCount) ELSE Fin(0, 1)
    IN IF union = 0 THEN <<>>
       ELSE IF aCount > 5 /\ bCount > 5
       THEN IF QGt(lift, 3, 2) /\ QGe(probBgivenA, 5, 10)
            THEN <<Correlation(hA, hB, lift, totalDays,
                               toFixedPercent(bothCount, aCount))>>
            ELSE IF QGt(lift, 3, 2)
            THEN IF QGt(probAgivenB, 6, 10)
                 THEN <<Correlation(hB, hA, lift, totalDays,
                                    toFixedPercent(bothCount, bCount))>>
                 ELSE <<>>
            ELSE <<>>
       ELSE <<>>

\* a habit present on 5 dates is enough
correlationsOfPairFiveDates(hA, hB, byDate) ==
    LET dates == DOMAIN byDate
        totalDays == Cardinality(dates)
        aCount == Cardinality({ d \in dates : hA.id \in byDate[d] })
        bCount == Cardinality({ d \in dates : hB.id \in byDate[d] })
        bothCount ==
            Cardinality({ d \in dates : hA.id \in byDate[d] /\ hB.id \in byDate[d] })
        pB == Fin(bCount, totalDays)
        union == aCount + bCount - bothCount
        probBgivenA == IF aCount > 0 THEN Fin(bothCount, aCount) ELSE Fin(0, 1)
        lift == IF bCount > 0 THEN QDiv(probBgivenA, pB) ELSE Fin(0, 1)
        probAgivenB == IF bCount > 0 THEN Fin(bothCount, bCount) ELSE Fin(0, 1)
    IN IF union = 0 THEN <<>>
       ELSE IF aCount >= 5 /\ bCount >= 5
       THEN IF QGt(lift, 3, 2) /\ QGt(probBgivenA, 6, 10)
            THEN <<Correlation(hA, hB, lift, totalDays,
                               toFixedPercent(bothCount, aCount))>>
            ELSE IF QGt(lift, 3, 2)
            THEN IF QGt(probAgivenB, 6, 10)
                 THEN <<Correlation(hB, hA, lift, totalDays,
                                    toFixedPercent(bothCount, bCount))>>
                 ELSE <<>>
            ELSE <<>>
       ELSE <<>>

\* the body of the loop over the pairs, as the correlations it pushes
correlationsOfPair(hA, hB, byDate) ==
    LET dates == DOMAIN byDate
        totalDays == Cardinality(dates)
        aCount == Cardinality({ d \in dates : hA.id \in byDate[d] })
        bCount == Cardinality({ d \in dates : hB.id \in byDate[d] })
        bothCount ==
            Cardinality({ d \in dates : hA.id \in byDate[d] /\ hB.id \in byDate[d] })
        pB == Fin(bCount, totalDays)
        union == aCount + bCount - bothCount
        probBgivenA == IF aCount > 0 THEN Fin(bothCount, aCount) ELSE Fin(0, 1)
        lift == IF bCount > 0 THEN QDiv(probBgivenA, pB) ELSE Fin(0, 1)
        probAgivenB == IF bCount > 0 THEN Fin(bothCount, bCount) ELSE Fin(0, 1)
    IN IF union = 0 THEN <<>>
       ELSE IF aCount > 5 /\ bCount > 5
       THEN IF QGt(lift, 3, 2) /\ QGt(probBgivenA, 6, 10)
            THEN <<Correlation(hA, hB, lift, totalDays,
                               toFixedPercent(bothCount, aCount))>>
            ELSE IF QGt(lift, 3, 2)
            THEN IF QGt(probAgivenB, 6, 10)
                 THEN <<Correlation(hB, hA, lift, totalDays,
                                    toFixedPercent(bothCount, bCount))>>
                 ELSE <<>>
            ELSE <<>>
       ELSE <<>>

RECURSIVE pairLoop(_, _, _, _)
\* for (i ...) for (j = i + 1 ...): the correlations pushed from pair (i, j) on
pairLoop(hs, byDate, i, j) ==
    IF i > Len(hs) THEN <<>>
    ELSE IF j > Len(hs) THEN pairLoop(hs, byDate, i + 1, i + 2)
    ELSE correlationsOfPair(hs[i], hs[j], byDate) \o pairLoop(hs, byDate, i, j + 1)

\* c placed in a list sorted by descending score, behind the entries that
\* do not sort after it (Array.prototype.sort is stable)
insertByScore(sorted, c) ==
    SelectSeq(sorted, LAMBDA e : ~QLess(e.score, c.score))
       \o <<c>> \o SelectSeq(sorted, LAMBDA e : QLess(e.score, c.score))

RECURSIVE sortAscendingByScore(_)
sortAscendingByScore(cs) ==
    IF cs = <<>> THEN <<>>
    ELSE Const(sortAscendingByScore(SubSeq(cs, 1, Len(cs) - 1)), LAMBDA sorted :
           SelectSeq(sorted, LAMBDA e : ~QLess(cs[Len(cs)].score, e.score))
              \o <<cs[Len(cs)]>>
              \o SelectSeq(sorted, LAMBDA e : QLess(cs[Len(cs)].score, e.score)))

RECURSIVE sortByScore(_)
\* correlations.sort((a, b) => b.score - a.score)
sortByScore(cs) ==
    IF cs = <<>> THEN <<>>
    ELSE Const(sortByScore(SubSeq(cs, 1, Len(cs) - 1)), LAMBDA sorted :
           insertByScore(sorted, cs[Len(cs)]))

NoCorrelations == [correlations |-> <<>>, returned |-> <<>>]

\* the array returned, with the local correlations (all that were pushed)
findCorrelations(hs, cis) ==
    IF Len(hs) < 2 THEN NoCorrelations
    ELSE Const(checkInsByDate(cis), LAMBDA byDate :
      IF Cardinality(DOMAIN byDate) < 7 THEN NoCorrelations
      ELSE Const(pairLoop(hs, byDate, 1, 2), LAMBDA correlations :
             [correlations |-> correlations,
              returned |-> FirstK(sortByScore(correlations), 3)]))

----------------------------------------------------------------------------
(* Specification SpecCorrelations: findCorrelations of the profile page *)

MaxHabits == 5      \* the number of habits ranges over 0 .. MaxHabits

HabitIds == <<"h1", "h2", "h3", "h4", "h5", "h6">>

\* the dates a habit has check-ins on
CorrelationDateSets ==
    { {}, 1..6, (1..5) \cup {7}, 1..8, 2..10, 1..12, 11..15, 13..32 }

\* the dates a habit after the fourth has check-ins on
OtherDateSets == { {}, 11..15, 13..32 }

RECURSIVE RowsOfAll(_, _)
\* the table: the rows of the first habit, then of the second, ...
RowsOfAll(D, k) ==
    IF k > Len(D) THEN <<>> ELSE RowsOf(HabitIds[k], D[k]) \o RowsOfAll(D, k + 1)

InitCorrelations ==
    /\ pc = "correlations_input"
    /\ \E n \in 0..MaxHabits :
          /\ habits = [k \in 1..n |-> SummaryHabit(HabitIds[k])]
          /\ \E D \in [1..Min(n, 4) -> CorrelationDateSets] :
             \E E \in [5..n -> OtherDateSets] :
                checkIns = RowsOfAll([k \in 1..n |-> IF k <= 4 THEN D[k] ELSE E[k]], 1)
    /\ habitId = "h1"
    /\ value = 0
    /\ now = Day * 32
    /\ zone = NoZone
    /\ days = 0
    /\ res = NoCorrelations
    /\ procs = <<>>
    /\ nextId = 0

\* findCorrelations(habits, checkIns)
FindCorrelations ==
    /\ pc = "correlations_input"
    /\ res' = findCorrelations(habits, checkIns)
    /\ pc' = "correlations_done"
    /\ UNCHANGED <<habits, checkIns, habitId, value, now, zone, days, procs, nextId>>

NextCorrelations == FindCorrelations

SpecCorrelations == InitCorrelations /\ [][NextCorrelations]_vars

----------------------------------------------------------------------------
(* Claims on the correlations *)

CorrelationsDone == pc = "correlations_done"

\* the dates habit hid has a check-in on, and the dates any habit has one on
DatesOf(hid) ==
    { checkIns[k].effectiveDate :
        k \in { m \in 1..Len(checkIns) : checkIns[m].habitId = hid } }
AllDates == { checkIns[k].effectiveDate : k \in 1..Len(checkIns) }

CountOf(hid) == Cardinality(DatesOf(hid))
BothCount(a, b) == Cardinality(DatesOf(a) \cap DatesOf(b))

\* lift = P(B|A) / P(B) = (bothCount / aCount) / (bCount / totalDays)
LiftOf(a, b) ==
    IF CountOf(a) = 0 \/ CountOf(b) = 0 THEN Fin(0, 1)
    ELSE Fin(BothCount(a, b) * Cardinality(AllDates), CountOf(a) * CountOf(b))

\* P(y | x) = bothCount / xCount
Conditional(x, y) ==
    IF CountOf(x) = 0 THEN Fin(0, 1) ELSE Fin(BothCount(x, y), CountOf(x))

QEq(p, q) == p.kind = "fin" /\ q.kind = "fin" /\ p.num * q.den = q.num * p.den

Emitted(x, y) ==
    \E k \in 1..Len(res.correlations) :
        res.correlations[k].habitA = x /\ res.correlations[k].habitB = y

\* the pairs (habits[i], habits[j]) with i < j
HabitPairs ==
    { <<habits[ij[1]].id, habits[ij[2]].id>> :
        ij \in { p \in (1..Len(habits)) \X (1..Len(habits)) : p[1] < p[2] } }

C13_WitnessEmitted ==
    /\ CorrelationsDone
    /\ Cardinality(AllDates) > 30
    /\ \E k \in 1..Len(res.returned) :
          /\ res.returned[k].confidence = Fin(1, 1)
          /\ QGt(res.returned[k].score, 3, 2)

(* C14: for every unordered pair of habits at most one correlation is      *)
(* emitted: never both A->B and B->A.                                      *)
C14_OneDirectionPerPair ==
    CorrelationsDone =>
        \A pr \in HabitPairs :
            Cardinality({ k \in 1..Len(res.correlations) :
                            {res.correlations[k].habitA, res.correlations[k].habitB}
                               = {pr[1], pr[2]} }) <= 1

\* two habits on the same dates: both conditionals pass, one direction is
\* emitted
C14_Witness ==
    /\ CorrelationsDone
    /\ CountOf("h1") = 6 /\ DatesOf("h1") = DatesOf("h2")
    /\ Emitted("h1", "h2") /\ ~Emitted("h2", "h1")

\* the reverse direction alone: P(B|A) = 0.5, P(A|B) = 1
C14_WitnessReverse ==
    /\ CorrelationsDone
    /\ Emitted("h2", "h1") /\ ~Emitted("h1", "h2")

(* C15: the result is empty with fewer than 2 habits or fewer than 7       *)
(* distinct dates with a check-in, and no returned correlation involves a  *)
(* habit present on 5 or fewer dates.                                      *)
C15_EmptyOnSmallSamples ==
    CorrelationsDone =>
        /\ (Len(habits) < 2) => (res.returned = <<>>)
        /\ (Cardinality(AllDates) < 7) => (res.returned = <<>>)
        /\ \A k \in 1..Len(res.returned) :
              /\ CountOf(res.returned[k].habitA) > 5
              /\ CountOf(res.returned[k].habitB) > 5

\* two habits on the same 5 dates of 11 (lift 2.2, conditional 1): nothing
C15_Witness ==
    /\ CorrelationsDone
    /\ Len(habits) = 3
    /\ CountOf("h1") = 5 /\ DatesOf("h1") = DatesOf("h2")
    /\ CountOf("h3") = 6 /\ Cardinality(AllDates) = 11
    /\ res.returned = <<>>

\* fewer than 7 dates for two habits
C15_WitnessFewDates ==
    /\ CorrelationsDone
    /\ Len(habits) = 2 /\ Cardinality(AllDates) = 6 /\ CountOf("h1") = 6
    /\ res.returned = <<>>

(* C16: at most 3 correlations are returned, in order of non-increasing    *)
(* liftScore, and they are the highest of the emitted ones: no emitted     *)
(* correlation left out has a larger liftScore than a returned one.        *)
C16_TopThreeByLift ==
    CorrelationsDone =>
        LET all == res.correlations
            top == res.returned
        IN /\ Len(top) = Min(3, Len(all))
           /\ SeqRange(top) \subseteq SeqRange(all)
           /\ Cardinality(SeqRange(top)) = Len(top)
           /\ \A k \in 1..(Len(top) - 1) : ~QLess(top[k].score, top[k + 1].score)
           /\ \A e \in SeqRange(all) \ SeqRange(top) :
                 \A k \in 1..Len(top) : ~QLess(top[k].score, e.score)

\* more than 3 emitted, of different lifts, the lowest left out
C16_Witness ==
    /\ CorrelationsDone
    /\ Len(res.correlations) > 3
    /\ Len(res.returned) = 3
    /\ QLess(res.returned[3].score, res.returned[1].score)
    /\ \E e \in SeqRange(res.correlations) \ SeqRange(res.returned) :
          QLess(e.score, res.returned[3].score)
    /\ QLess(res.correlations[1].score, res.returned[1].score)

----------------------------------------------------------------------------
(* Specification SpecMomentum: calculateMomentum of one habit *)

\* 01:00 UTC on the day before today: the instant the clocks change
MomentumTransition == Day * (SummaryToday - 1) + Hour

MomentumZones ==
    { Zone(0, 0, 0), Zone(2 * Hour, 2 * Hour, 0),
      Zone(0, Hour, MomentumTransition), Zone(Hour, 0, MomentumTransition) }

\* the windowDays argument: short windows and the default
MomentumWindows == (0..MaxWindow) \cup {DefaultWindowDays}

MomentumHabits ==
    { Habit("h1", "binary", FALSE, 0, "at_least"),
      Habit("h1", "numeric", TRUE, 2, "at_most") }

\* the dates with a check-in: the k most recent days, or a few single days
MomentumDateSets ==
    { (SummaryToday - k + 1)..SummaryToday : k \in 0..DefaultWindowDays }
    \cup { {SummaryToday - 1}, {SummaryToday - 2, SummaryToday},
           {SummaryToday - 15}, {SummaryToday - DefaultWindowDays + 1} }

\* one check-in of value v on each date of D
RowsWith(hid, D, v) ==
    LET ds == SortedDates(D)
    IN [k \in 1..Len(ds) |-> CheckIn(<<hid, ds[k], 1>>, hid, v, ds[k])]

InitMomentum ==
    /\ pc = "momentum_input"
    /\ \E h \in MomentumHabits : habits = <<h>>
    /\ \E D \in MomentumDateSets : \E v \in 1..MaxValue :
          checkIns = RowsWith("h1", D, v)
    /\ habitId = "h1"
    /\ value = 0
    /\ now \in { Day * SummaryToday + h : h \in {1, 12 * Hour, 23 * Hour + 1} }
    /\ zone \in MomentumZones
    /\ days = 0
    /\ res = ZeroMomentum
    /\ procs = <<>>
    /\ nextId = 0

\* calculateMomentum(habitId, windowDays)
CalculateMomentum ==
    /\ pc = "momentum_input"
    /\ \E n \in MomentumWindows :
         /\ days' = n
         /\ res' = calculateMomentum(habitId, n)
    /\ pc' = "momentum_done"
    /\ UNCHANGED <<habits, checkIns, habitId, value, now, zone, procs, nextId>>

NextMomentum == CalculateMomentum

SpecMomentum == InitMomentum /\ [][NextMomentum]_vars

----------------------------------------------------------------------------
(* Claims on the momentum *)

MomentumDone == pc = "momentum_done"

\* normalize(value, habit) as the rule is stated: 1 or 0 for a binary habit
\* and for a habit without target (a target of 0 is no target),
\* min(value / targetValue, 1) otherwise
NormalizeOf(v, habit) ==
    IF habit.type = "binary" \/ NoTargetValue(habit)
    THEN (IF v > 0 THEN Fin(1, 1) ELSE Fin(0, 1))
    ELSE IF v < habit.targetValue THEN Fin(v, habit.targetValue) ELSE Fin(1, 1)

\* the value recorded for the habit on date d, 0 if none
ValueOn(hid, d) ==
    IF \E k \in 1..Len(checkIns) :
          checkIns[k].habitId = hid /\ checkIns[k].effectiveDate = d
    THEN checkIns[CHOOSE k \in 1..Len(checkIns) :
                    checkIns[k].habitId = hid /\ checkIns[k].effectiveDate = d].value
    ELSE 0

\* clamp(50 * slope, -1, 1)
ClampedScore(slope) ==
    IF slope.num * 50 > slope.den THEN Fin(1, 1)
    ELSE IF slope.num * 50 < -slope.den THEN Fin(-1, 1)
    ELSE Fin(slope.num * 50, slope.den)

ScoreAndDirection ==
    /\ res.score = ClampedScore(res.slopePerDay)
    /\ QGe(res.score, -1, 1) /\ ~QGt(res.score, 1, 1)
    /\ (res.direction = "improving") = QGt(res.score, 1, 10)
    /\ (res.direction = "declining") = QLt(res.score, -1, 10)
    /\ (res.direction = "stable") = (~QGt(res.score, 1, 10) /\ ~QLt(res.score, -1, 10))

DailyPointsEndingToday ==
    /\ res.dataPoints = days
    /\ Len(res.points) = days
    /\ \A k \in 1..days :
          QEq(res.points[k],
              NormalizeOf(ValueOn("h1", Today - (days - k)), habits[1]))

(* C17: calculateMomentum builds windowDays daily points ending today      *)
(* (sampleSize = windowDays) and returns score = clamp(50 * slope, -1, 1), *)
(* in [-1, 1]; direction is improving exactly when score > 0.1, declining  *)
(* exactly when score < -0.1, stable otherwise.                            *)
C17_MomentumOfDailyPoints ==
    MomentumDone => (DailyPointsEndingToday /\ ScoreAndDirection)

\* C17 on a device whose zone has no clock change in the window
C17_MomentumOfDailyPointsFixedZone ==
    (MomentumDone /\ IsFixedZone(zone)) =>
        (DailyPointsEndingToday /\ ScoreAndDirection)

\* the score and the direction of C17, whatever the points
C17_ScoreClampedAndDirected ==
    MomentumDone => (res.dataPoints = days /\ ScoreAndDirection)

\* the points are 0 up to the last k, which are 1, for some 0 < k < n
StepAt(points, k) ==
    /\ k \in 1..(Len(points) - 1)
    /\ \A i \in 1..Len(points) :
          points[i] = IF i > Len(points) - k THEN Fin(1, 1) ELSE Fin(0, 1)

IsFlat(points) == \A i, j \in 1..Len(points) : QEq(points[i], points[j])

(* C18 as claimed: for a binary habit, a history that is 0 on the older    *)
(* days of the window and 1 on the recent days yields score = 1 and        *)
(* direction improving; a flat history yields slope 0 and direction        *)
(* stable.                                                                 *)
C18_StepSaturatesFlatIsStable ==
    MomentumDone =>
        /\ (habits[1].type = "binary" /\ \E k \in 1..days : StepAt(res.points, k))
              => (res.score = Fin(1, 1) /\ res.direction = "improving")
        /\ IsFlat(res.points)
              => (res.slopePerDay.num = 0 /\ res.direction = "stable")

(* C18 amended: with the default window of 30 days, a binary history that  *)
(* is 0 on the older days and 1 on the k most recent days (0 < k < 30)     *)
(* yields direction improving, and score = 1 exactly when 4 <= k <= 26;    *)
(* a flat history yields slope 0 and direction stable.                     *)
C18_StepImprovesFlatIsStable ==
    MomentumDone =>
        /\ \A k \in 1..days :
              (/\ habits[1].type = "binary"
               /\ days = DefaultWindowDays
               /\ StepAt(res.points, k))
              => /\ res.direction = "improving"
                 /\ (res.score = Fin(1, 1)) = (k >= 4 /\ k <= 26)
        /\ IsFlat(res.points)
              => (res.slopePerDay.num = 0 /\ res.direction = "stable")

\* the last 15 of 30 days are 1: the score is clamped at 1
C18_Witness ==
    /\ MomentumDone
    /\ habits[1].type = "binary" /\ days = DefaultWindowDays
    /\ StepAt(res.points, 15)
    /\ res.score = Fin(1, 1) /\ res.direction = "improving"

\* a flat history of 30 days of the same value, not 0
C18_WitnessFlat ==
    /\ MomentumDone
    /\ days = DefaultWindowDays
    /\ IsFlat(res.points) /\ res.points[1].num > 0
    /\ res.slopePerDay.num = 0 /\ res.direction = "stable"

----------------------------------------------------------------------------
(* Specification SpecNormalize: one call of each copy of normalizeValue *)

InitNormalize ==
    /\ pc = "normalize"
    /\ \E h \in HabitDomain("h1") : habits = <<h>>
    /\ value \in (-1)..(MaxValue + 1)
    /\ checkIns = <<>>
    /\ habitId = "h1"
    /\ now = 0
    /\ zone = NoZone
    /\ days = 0
    /\ res = None
    /\ procs = <<>>
    /\ nextId = 0

\* normalizeValue(value, habit) in getWindowValues and in calculateMomentum,
\* on the same arguments
EvalNormalizeValue ==
    /\ pc = "normalize"
    /\ res' = [rolling |-> normalizeValueRolling(value, habits[1]),
               momentum |-> normalizeValueMomentum(value, habits[1])]
    /\ pc' = "normalized"
    /\ UNCHANGED <<habits, checkIns, habitId, value, now, zone, days, procs, nextId>>

NextNormalize == EvalNormalizeValue

SpecNormalize == InitNormalize /\ [][NextNormalize]_vars

----------------------------------------------------------------------------
(* Claims on the rolling averages and the normalization *)

RollingDone == pc = "rolling_done"

\* the numerator of the normalized value of day d over the denominator
\* NormDen: 1 or 0 over 1, or min(value, target) over target
NormDen(habit) ==
    IF habit.type = "binary" \/ NoTargetValue(habit) THEN 1 ELSE habit.targetValue
NormNum(habit, d) ==
    IF habit.type = "binary" \/ NoTargetValue(habit)
    THEN (IF ValueOn(habit.id, d) > 0 THEN 1 ELSE 0)
    ELSE Min(ValueOn(habit.id, d), habit.targetValue)

RECURSIVE SumNormNum(_, _, _)
SumNormNum(habit, lo, hi) ==
    IF lo > hi THEN 0 ELSE NormNum(habit, lo) + SumNormNum(habit, lo + 1, hi)

\* the mean of the normalized values of the m days ending at day d
MeanOfDays(habit, d, m) ==
    Fin(SumNormNum(habit, d - m + 1, d), NormDen(habit) * m)

RollingAsClaimed ==
    LET n == days
        h == habits[1]
        dateOf(k) == Today - (n - k)
    IN /\ Len(res.points) = n
       /\ \A k \in 1..n :
            LET pt == res.points[k] IN
            /\ pt.date = dateOf(k)
            /\ QEq(pt.value, Fin(NormNum(h, dateOf(k)), NormDen(h)))
            /\ QEq(pt.avg7, MeanOfDays(h, dateOf(k), Min(k, 7)))
            /\ QEq(pt.avg14, MeanOfDays(h, dateOf(k), Min(k, 14)))
            /\ QEq(pt.avg30, MeanOfDays(h, dateOf(k), Min(k, 30)))
       /\ (n > 0) => /\ res.current7 = res.points[n].avg7
                     /\ res.current14 = res.points[n].avg14
                     /\ res.current30 = res.points[n].avg30

(* C19: calculateRollingAverages returns one point per day of the trailing *)
(* days-day window, oldest first and ending today; at index i and for W in *)
(* {7, 14, 30}, avgW is the mean of the normalized values of exactly the   *)
(* min(i + 1, W) days ending at that day, never padded with zeros;         *)
(* current7/14/30 are the averages of the last point.                      *)
C19_OnePointPerDayTrailingMeans == RollingDone => RollingAsClaimed

\* C19 on a device whose zone has no clock change in the window
C19_OnePointPerDayTrailingMeansFixedZone ==
    (RollingDone /\ IsFixedZone(zone)) => RollingAsClaimed

\* min(value / targetValue, 1) as JavaScript computes it
MinOfQuotientAndOne(v, target) ==
    LET q == Quot(v, target) IN
    CASE q.kind = "NaN" -> q
      [] q.kind = "Infinity" -> Fin(1, 1)
      [] q.kind = "-Infinity" -> q
      [] OTHER -> IF QLess(q, Fin(1, 1)) THEN q ELSE Fin(1, 1)

SameNumber(p, q) ==
    /\ p.kind = q.kind
    /\ (p.kind = "fin") => (p.num * q.den = q.num * p.den)

(* C20 as claimed: both normalizations return 1 if value > 0 else 0 for a  *)
(* binary habit or a habit without target, and min(value / targetValue, 1) *)
(* for a habit with a target, never consulting targetDirection.            *)
C20_NormalizeIdenticallyAnyTarget ==
    (pc = "normalized") =>
        LET h == habits[1]
            claimed == IF h.type = "binary" \/ ~h.hasTarget
                       THEN (IF value > 0 THEN Fin(1, 1) ELSE Fin(0, 1))
                       ELSE MinOfQuotientAndOne(value, h.targetValue)
        IN /\ SameNumber(res.rolling, res.momentum)
           /\ SameNumber(res.rolling, claimed)

(* C20 amended: both normalizations return 1 if value > 0 else 0 for a     *)
(* binary habit and for a habit whose targetValue is absent or 0, and      *)
(* min(value / targetValue, 1) for any other habit with a targetValue that *)
(* is not 0, never consulting targetDirection.                             *)
C20_NormalizeIdenticallyNonZeroTarget ==
    (pc = "normalized") =>
        LET h == habits[1]
            amended == IF h.type = "binary" \/ ~h.hasTarget \/ h.targetValue = 0
                       THEN (IF value > 0 THEN Fin(1, 1) ELSE Fin(0, 1))
                       ELSE MinOfQuotientAndOne(value, h.targetValue)
        IN /\ SameNumber(res.rolling, res.momentum)
           /\ SameNumber(res.rolling, amended)

\* an at_most habit over its target: both report 1
C20_Witness ==
    /\ pc = "normalized"
    /\ habits[1].type = "numeric" /\ habits[1].hasTarget
    /\ habits[1].targetValue = 2 /\ habits[1].targetDirection = "at_most"
    /\ value = 3
    /\ res.rolling = Fin(1, 1) /\ res.momentum = Fin(1, 1)

\* a fraction of the target
C20_WitnessFraction ==
    /\ pc = "normalized"
    /\ habits[1].type = "numeric" /\ habits[1].targetValue = 2 /\ value = 1
    /\ res.rolling = Fin(1, 2) /\ res.momentum = Fin(1, 2)

----------------------------------------------------------------------------
(* Specification SpecConsistency: generateTextSummary over check-ins dated *)
(* before, inside and after the trailing window                            *)

ConsistencySpan == 3   \* the check-in dates lie within ConsistencySpan days of today

ConsistencyDays == {1, 2, ConsistencySpan, 7}

ConsistencyDateSets ==
    SUBSET ((SummaryToday - ConsistencySpan)..(SummaryToday + ConsistencySpan - 1))

InitConsistency ==
    /\ pc = "summary_input"
    /\ \/ /\ habits = <<SummaryHabit("h1")>>
          /\ \E D \in ConsistencyDateSets \ { {} } : checkIns = RowsOf("h1", D)
       \/ /\ habits = <<SummaryHabit("h1"), SummaryHabit("h2")>>
          /\ \E D1 \in ConsistencyDateSets :
             \E D2 \in { {SummaryToday - 8}, {SummaryToday, SummaryToday + 1} } :
                checkIns = RowsOf("h1", D1) \o RowsOf("h2", D2)
    /\ habitId = "h1"
    /\ value = 0
    /\ now \in { Day * SummaryToday + h : h \in {1, 12 * Hour} }
    /\ zone \in { Zone(0, 0, 0), Zone(2 * Hour, 2 * Hour, 0) }
    /\ days \in ConsistencyDays
    /\ res = [text |-> <<>>] @@ NoSummaryDetail
    /\ procs = <<>>
    /\ nextId = 0

SpecConsistency == InitConsistency /\ [][NextSummary]_vars

----------------------------------------------------------------------------
(* Claims on the consistency of the text summary *)

SummaryDone == pc = "summary_done"

\* the trailing window of n days ending today
TrailingWindow(n) == (Today - n + 1)..Today

ConsistencyOverWindow ==
    /\ Len(res.stats) = Len(habits)
    /\ \A k \in 1..Len(habits) :
         /\ res.stats[k].name = habits[k].id
         /\ res.stats[k].consistency =
               Quot(Cardinality(DatesOf(habits[k].id) \cap TrailingWindow(days)), days)
         /\ ~QGt(res.stats[k].consistency, 1, 1)

(* C21: for each habit, generateTextSummary computes consistency = (number *)
(* of distinct effectiveDates among the habit's check-ins within the       *)
(* trailing windowDays days ending today) / windowDays, whatever the       *)
(* values; check-ins dated before the window or after today are not        *)
(* counted, so consistency never exceeds 1.                                *)
C21_ConsistencyOverTrailingWindow == SummaryDone => ConsistencyOverWindow

\* C21 when no check-in is dated after today
C21_ConsistencyOverTrailingWindowNoneAfterToday ==
    (SummaryDone /\ \A k \in 1..Len(checkIns) : checkIns[k].effectiveDate <= Today)
        => ConsistencyOverWindow

----------------------------------------------------------------------------
(* Specification SpecAnalytics: each analytic component called once on a   *)
(* repository that may lack the habit and may hold several check-ins for   *)
(* one date                                                                *)

AnalyticsSpan == 3     \* check-ins lie in the last AnalyticsSpan days

\* the habits table: empty, without h1, or with h1
AnalyticsHabits ==
    { <<>>,
      <<Habit("h2", "binary", FALSE, 0, "at_least")>>,
      <<Habit("h1", "binary", FALSE, 0, "at_least")>>,
      <<Habit("h1", "numeric", FALSE, 0, "at_least")>>,
      <<Habit("h1", "numeric", TRUE, 2, "at_least")>>,
      <<Habit("h1", "duration", TRUE, 2, "at_most")>> }

\* the values of the check-ins of one date, in the order the repository
\* returns them
AnalyticsSlots == { <<>>, <<1>>, <<3>>, <<0, 1>>, <<3, 0>> }

RECURSIVE RowsFrom(_, _, _, _)
\* the rows of habit hid for the days d .. last, slot[d] giving the values
RowsFrom(slot, hid, d, last) ==
    IF d > last THEN <<>>
    ELSE [k \in 1..Len(slot[d]) |-> CheckIn(<<hid, d, k>>, hid, slot[d][k], d)]
         \o RowsFrom(slot, hid, d + 1, last)

InitAnalytics ==
    /\ pc = "analytics"
    /\ habits \in AnalyticsHabits
    /\ \E slot \in [(MaxDay - AnalyticsSpan + 1)..MaxDay -> AnalyticsSlots] :
          checkIns = RowsFrom(slot, "h1", MaxDay - AnalyticsSpan + 1, MaxDay)
    /\ habitId = "h1"
    /\ value = 0
    /\ now \in { Day * MaxDay + h : h \in {1, 12 * Hour} }
    /\ zone \in Zones
    /\ days = 0
    /\ res = None
    /\ procs = <<>>
    /\ nextId = 0

\* calculateStreaks(habitId)
StreaksOfHabit ==
    /\ pc = "analytics"
    /\ res' = calculateStreaks(habitId)
    /\ pc' = "analytics_streaks"
    /\ UNCHANGED <<habits, checkIns, habitId, value, now, zone, days, procs, nextId>>

\* calculateRollingAverages(habitId, days)
RollingOfHabit ==
    /\ pc = "analytics"
    /\ \E n \in 0..MaxWindow :
         /\ days' = n
         /\ res' = calculateRollingAverages(habitId, n)
    /\ pc' = "analytics_rolling"
    /\ UNCHANGED <<habits, checkIns, habitId, value, now, zone, procs, nextId>>

\* calculateMomentum(habitId, windowDays)
MomentumOfHabit ==
    /\ pc = "analytics"
    /\ \E n \in (0..MaxWindow) \cup {DefaultWindowDays} :
         /\ days' = n
         /\ res' = calculateMomentum(habitId, n)
    /\ pc' = "analytics_momentum"
    /\ UNCHANGED <<habits, checkIns, habitId, value, now, zone, procs, nextId>>

\* generateHeatmapData(habitId, days)
HeatmapDataOfHabit ==
    /\ pc = "analytics"
    /\ \E n \in 0..MaxWindow :
         /\ days' = n
         /\ res' = generateHeatmapData(habitId, n)
    /\ pc' = "analytics_heatmap"
    /\ UNCHANGED <<habits, checkIns, habitId, value, now, zone, procs, nextId>>

NextAnalytics ==
    StreaksOfHabit \/ RollingOfHabit \/ MomentumOfHabit \/ HeatmapDataOfHabit

SpecAnalytics == InitAnalytics /\ [][NextAnalytics]_vars

----------------------------------------------------------------------------
(* Claims on a missing habit and on empty histories *)

HabitMissing == \A k \in 1..Len(habits) : habits[k].id # habitId

AllZeroStreaks ==
    /\ res.currentStreak = 0
    /\ res.longestStreak = 0
    /\ res.lastCompletedDate = NoDate
    /\ res.isActiveToday = FALSE

\* the rows of the habit, none of which satisfies the completion predicate
NoneCompleted ==
    \A k \in 1..Len(checkIns) :
        checkIns[k].habitId = habitId
            => ~isCompletedStreaks(getHabit(habitId), checkIns[k].value)

(* C22: when the repository returns no habit, calculateStreaks,            *)
(* calculateRollingAverages, calculateMomentum and generateHeatmapData     *)
(* each return their zero-value result (counts 0, empty series, null date, *)
(* direction stable); calculateStreaks returns the all-zero result         *)
(* {0, 0, null, false} whenever no check-in satisfies the completion       *)
(* predicate.                                                              *)
C22_ZeroResultWithoutHabit ==
    /\ (pc = "analytics_streaks" /\ HabitMissing) => AllZeroStreaks
    /\ (pc = "analytics_rolling" /\ HabitMissing) =>
          /\ res.points = <<>>
          /\ res.current7 = Fin(0, 1)
          /\ res.current14 = Fin(0, 1)
          /\ res.current30 = Fin(0, 1)
    /\ (pc = "analytics_momentum" /\ HabitMissing) =>
          /\ res.score = Fin(0, 1)
          /\ res.direction = "stable"
          /\ res.slopePerDay = Fin(0, 1)
          /\ res.dataPoints = 0
    /\ (pc = "analytics_heatmap" /\ HabitMissing) =>
          /\ res.cells = <<>>
          /\ res.totalDays = 0
          /\ res.completedDays = 0
          /\ res.completionRate = Fin(0, 1)
    /\ (pc = "analytics_streaks" /\ ~HabitMissing /\ NoneCompleted) => AllZeroStreaks

\* the habit is missing while its check-ins are still in the table, and the
\* momentum asked for 30 days is the zero result
C22_Witness ==
    /\ pc = "analytics_momentum"
    /\ HabitMissing /\ Len(habits) = 1
    /\ Len(checkIns) > 2
    /\ days = DefaultWindowDays
    /\ res.dataPoints = 0 /\ res.direction = "stable"

\* the habit exists and has check-ins, none of them completed
C22_WitnessNoneCompleted ==
    /\ pc = "analytics_streaks"
    /\ ~HabitMissing /\ NoneCompleted
    /\ Len(checkIns) > 0
    /\ AllZeroStreaks

----------------------------------------------------------------------------
(* Claims on the cells of the heatmap *)

HeatmapDataDone == pc = "analytics_heatmap" /\ ~HabitMissing

\* the values recorded for habit hid on date d
ValuesOn(hid, d) ==
    { checkIns[k].value :
        k \in { m \in 1..Len(checkIns) :
                  checkIns[m].habitId = hid /\ checkIns[m].effectiveDate = d } }

----------------------------------------------------------------------------
(* Claims on several check-ins for one date *)

\* the rows of habit hid dated d, as positions in the order the repository
\* returns them
RowsOn(hid, d) ==
    { k \in 1..Len(checkIns) :
        checkIns[k].habitId = hid /\ checkIns[k].effectiveDate = d }

\* the value of the row of date d encountered last, 0 without such a row
LastValueOn(hid, d) ==
    IF RowsOn(hid, d) = {} THEN 0
    ELSE checkIns[CHOOSE k \in RowsOn(hid, d) : \A j \in RowsOn(hid, d) : j <= k].value

\* the dates with a completed check-in, each date once
CompletedDateSet(hid) ==
    { d \in DatesOf(hid) :
        \E k \in RowsOn(hid, d) : isCompletedStreaks(getHabit(hid), checkIns[k].value) }

\* the date of the k-th of n days the code walks through
WalkedDate(n, k) == toISODate(setDateBack(zone, now, n - k))

C24_WitnessStreak ==
    /\ pc = "analytics_streaks" /\ ~HabitMissing
    /\ Len(checkIns) = 2 * AnalyticsSpan
    /\ \A d \in DatesOf(habitId) : Cardinality(RowsOn(habitId, d)) = 2
    /\ res.longestStreak = AnalyticsSpan

\* the momentum point of a date with values 3 then 0 is 0
C24_WitnessMomentum ==
    /\ pc = "analytics_momentum" /\ ~HabitMissing
    /\ days = MaxWindow
    /\ \E k \in 1..days :
         /\ Cardinality(RowsOn(habitId, WalkedDate(days, k))) = 2
         /\ LastValueOn(habitId, WalkedDate(days, k)) = 0
         /\ res.points[k] = Fin(0, 1)

----------------------------------------------------------------------------
(* Specification SpecOrder: a component is called, the same check-ins are  *)
(* supplied in another order, and the component is called again            *)

MaxPermuted == 4       \* tables of up to MaxPermuted rows are permuted in every way

OrderHabits ==
    { Habit("h1", "binary", FALSE, 0, "at_least"),
      Habit("h1", "numeric", FALSE, 0, "at_least"),
      Habit("h1", "numeric", TRUE, 2, "at_least") }

\* at most one check-in per date
OrderSlots == { <<>>, <<1>>, <<3>> }

OrderDateSets == { 1..6, (1..5) \cup {7}, 1..8, 2..10, 1..12 }

\* the ways a table of n rows is supplied again: every permutation of a
\* short table; of a long table the reversal, the rotation, the rows of odd
\* position before those of even position and the exchanges of neighbours
Reorderings(n) ==
    IF n <= MaxPermuted THEN Permutations(1..n)
    ELSE { [k \in 1..n |-> n + 1 - k],
           [k \in 1..n |-> (k % n) + 1],
           [k \in 1..n |-> IF k <= (n + 1) \div 2 THEN 2 * k - 1
                           ELSE 2 * (k - (n + 1) \div 2)] }
         \cup { [k \in 1..n |-> IF k = i THEN i + 1 ELSE IF k = i + 1 THEN i ELSE k] :
                  i \in 1..(n - 1) }

Reordered(cis, p) == [k \in 1..Len(cis) |-> cis[p[k]]]

OrderComponents == {"streaks", "rolling", "momentum", "heatmap", "correlations"}

\* the position after the first call of a component, after the table is
\* supplied in another order, and after the second call
CalledOnce ==
    [streaks |-> "streaks_once", rolling |-> "rolling_once",
     momentum |-> "momentum_once", heatmap |-> "heatmap_once",
     correlations |-> "correlations_once"]
Resupplied ==
    [streaks |-> "streaks_resupplied", rolling |-> "rolling_resupplied",
     momentum |-> "momentum_resupplied", heatmap |-> "heatmap_resupplied",
     correlations |-> "correlations_resupplied"]
CalledAgain ==
    [streaks |-> "streaks_again", rolling |-> "rolling_again",
     momentum |-> "momentum_again", heatmap |-> "heatmap_again",
     correlations |-> "correlations_again"]

InitOrder ==
    /\ pc = "order_input"
    /\ \/ /\ \E h \in OrderHabits : habits = <<h>>
          /\ \E slot \in [(MaxDay - MaxPermuted + 1)..MaxDay -> OrderSlots] :
                checkIns = RowsFrom(slot, "h1", MaxDay - MaxPermuted + 1, MaxDay)
          /\ now = Day * MaxDay + 12 * Hour
          /\ zone \in { Zone(0, 0, 0), Zone(Hour, 0, TransitionHour) }
       \/ /\ \E n \in 2..3 :
               /\ habits = [k \in 1..n |-> SummaryHabit(HabitIds[k])]
               /\ \E D \in [1..n -> OrderDateSets] : checkIns = RowsOfAll(D, 1)
          /\ now = Day * 32
          /\ zone = NoZone
    /\ habitId = "h1"
    /\ value = 0
    /\ days = 0
    /\ res = None
    /\ procs = <<>>
    /\ nextId = 0

\* the result of component c for the habit, the table and the clock of the
\* state
ComponentResult(c, n) ==
    CASE c = "streaks" -> calculateStreaks(habitId)
      [] c = "rolling" -> calculateRollingAverages(habitId, n)
      [] c = "momentum" -> calculateMomentum(habitId, n)
      [] c = "heatmap" -> generateHeatmapData(habitId, n)
      [] c = "correlations" -> findCorrelations(habits, checkIns)

\* one call of a component
CallComponent ==
    /\ pc = "order_input"
    /\ \E c \in OrderComponents :
         /\ (c = "correlations") = (Len(habits) > 1)
         /\ \E n \in IF c \in {"streaks", "correlations"} THEN {0}
                     ELSE IF c = "momentum" THEN {MaxWindow, DefaultWindowDays}
                     ELSE {1, MaxPermuted} :
              /\ days' = n
              /\ res' = ComponentResult(c, n)
         /\ pc' = CalledOnce[c]
    /\ UNCHANGED <<habits, checkIns, habitId, value, now, zone, procs, nextId>>

\* the repository holds the same rows in another order
SupplyInOtherOrder ==
    \E c \in OrderComponents :
       /\ pc = CalledOnce[c]
       /\ \E p \in Reorderings(Len(checkIns)) : checkIns' = Reordered(checkIns, p)
       /\ pc' = Resupplied[c]
       /\ UNCHANGED <<habits, habitId, value, now, zone, days, res, procs, nextId>>

\* the same component is called with the same arguments
CallComponentAgain ==
    \E c \in OrderComponents :
       /\ pc = Resupplied[c]
       /\ res' = ComponentResult(c, days)
       /\ pc' = CalledAgain[c]
       /\ UNCHANGED <<habits, checkIns, habitId, value, now, zone, days, procs, nextId>>

NextOrder == CallComponent \/ SupplyInOtherOrder \/ CallComponentAgain

SpecOrder == InitOrder /\ [][NextOrder]_vars

----------------------------------------------------------------------------
(* Claim on the order of the check-ins *)

(* C25: the result of each analytic component (streaks, rolling averages,  *)
(* momentum, heatmap, correlations) does not depend on the order in which  *)
(* the check-ins are supplied: for every permutation of a collection with  *)
(* at most one check-in per (habit, date), and the same habits and the     *)
(* same today, the output is identical.                                    *)
C25_OrderIndependent ==
    [][((\E c \in OrderComponents : pc' = CalledAgain[c])
          /\ AtMostOnePerDate(checkIns)) => res' = res]_vars

\* the correlations of a table supplied in another order, one correlation
\* found
C25_Witness ==
    /\ pc = "correlations_again"
    /\ checkIns # RowsOfAll([k \in 1..Len(habits) |-> DatesOf(HabitIds[k])], 1)
    /\ Len(res.returned) > 0

\* the streaks of four check-ins supplied newest first
C25_WitnessStreaks ==
    /\ pc = "streaks_again"
    /\ Len(checkIns) = MaxPermuted
    /\ \A k \in 1..(MaxPermuted - 1) :
          checkIns[k].effectiveDate > checkIns[k + 1].effectiveDate
    /\ res.longestStreak = MaxPermuted

\* the heatmap of a habit without target, the largest value supplied first
C25_WitnessHeatmap ==
    /\ pc = "heatmap_again"
    /\ ~habits[1].hasTarget /\ habits[1].type = "numeric"
    /\ Len(checkIns) = 3
    /\ checkIns[1].value = 3 /\ checkIns[3].value = 1
    /\ checkIns[1].effectiveDate = MaxDay
    /\ res.target = 3

----------------------------------------------------------------------------
(* Claims on the sentences of the text summary *)

(* C26: generateTextSummary returns the literal "You haven't created any   *)
(* habits yet." whenever the habit list is empty, and the literal "No      *)
(* activity recorded yet. Start tracking your habits!" whenever habits     *)
(* exist but the check-in list is empty, in both cases before any          *)
(* computation.                                                            *)
C26_LiteralsForEmptyInput ==
    SummaryDone =>
        /\ (Len(habits) = 0) =>
              /\ res.text = <<[sentence |-> "no_habits"]>>
              /\ res.stats = <<>>
        /\ (Len(habits) > 0 /\ Len(checkIns) = 0) =>
              /\ res.text = <<[sentence |-> "no_activity"]>>
              /\ res.stats = <<>>
        /\ (Len(habits) > 0 /\ Len(checkIns) > 0) =>
              /\ res.text # <<[sentence |-> "no_habits"]>>
              /\ res.text # <<[sentence |-> "no_activity"]>>

\* habits but no check-in, and a window of 0 days
C26_Witness ==
    /\ SummaryDone
    /\ Len(habits) = 2 /\ Len(checkIns) = 0 /\ days = 0
    /\ res.text = <<[sentence |-> "no_activity"]>>

\* no habit and no check-in: the literal of the habits
C26_WitnessNoHabits ==
    /\ SummaryDone
    /\ Len(habits) = 0 /\ Len(checkIns) = 0
    /\ res.text = <<[sentence |-> "no_habits"]>>

\* no habit, and a check-in left in the table
C26_WitnessOrphan ==
    /\ SummaryDone
    /\ Len(habits) = 0 /\ Len(checkIns) > 0
    /\ res.text = <<[sentence |-> "no_habits"]>>

----------------------------------------------------------------------------
(* Specification SpecClauses: generateTextSummary over up to               *)
(* MaxSummaryHabits habits of every class                                  *)

MaxSummaryHabits == 5  \* the number of habits ranges over 1 .. MaxSummaryHabits

\* check-in dates that make a habit, over SummarySpan days: strong; low;
\* mid-range and improving; mid-range and stable; mid-range and declining
ClauseDateSets ==
    LET lo == SummaryToday - SummarySpan + 1
        old == SummaryToday - DefaultWindowDays + 1
    IN { lo..SummaryToday,
         {SummaryToday},
         {lo, lo + 1},
         {old, old + 1, lo, lo + 1},
         (old..(old + 5)) \cup {lo, lo + 1} }

InitClauses ==
    /\ pc = "summary_input"
    /\ \E n \in 1..MaxSummaryHabits :
          /\ habits = [k \in 1..n |-> SummaryHabit(HabitIds[k])]
          /\ \E D \in [1..n -> ClauseDateSets] : checkIns = RowsOfAll(D, 1)
    /\ habitId = "h1"
    /\ value = 0
    /\ now = Day * SummaryToday + 12 * Hour
    /\ zone = NoZone
    /\ days = SummarySpan
    /\ res = [text |-> <<>>] @@ NoSummaryDetail
    /\ procs = <<>>
    /\ nextId = 0

SpecClauses == InitClauses /\ [][NextSummary]_vars

----------------------------------------------------------------------------
(* Claims on the clauses of the text summary *)

AllStrong == \A k \in 1..Len(res.stats) : QGe(res.stats[k].consistency, 7, 10)

\* the first k names of a class
FirstNames(class, k) == [i \in 1..Min(k, Len(class)) |-> class[i].name]

StrongClause ==
    IF res.strong = <<>> THEN <<>>
    ELSE <<[sentence |-> "doing_great",
            names |-> FirstNames(res.strong, 3),
            others |-> IF Len(res.strong) > 3 THEN Len(res.strong) - 3 ELSE 0]>>

ImprovingClause ==
    IF res.improving = <<>> THEN <<>>
    ELSE <<[sentence |-> "building_momentum", names |-> FirstNames(res.improving, 2)]>>

StrugglingClause ==
    IF res.struggling = <<>> THEN <<>>
    ELSE <<[sentence |-> IF res.strong = <<>> /\ res.improving = <<>>
                         THEN "pick_one_habit" ELSE "more_attention",
            names |-> FirstNames(res.struggling, 1)]>>

(* C27 as claimed: when every habit is strong, generateTextSummary returns *)
(* exactly the congratulatory sentence; otherwise it concatenates, in this *)
(* order, a strong clause naming at most 3 habits plus "and N others", an  *)
(* improving clause naming at most 2 habits, and a struggling clause       *)
(* naming exactly one habit, with the 'pick one habit' framing exactly     *)
(* when no habit is strong or improving and the 'a bit more attention'     *)
(* footnote otherwise.                                                     *)
C27_ClausesInOrder ==
    (SummaryDone /\ Len(res.stats) > 0) =>
        IF AllStrong
        THEN res.text = <<[sentence |-> "crushing_it"]>>
        ELSE res.text = StrongClause \o ImprovingClause \o StrugglingClause

(* C27 amended: when every habit is strong, the result is exactly the      *)
(* congratulatory sentence; otherwise it is the concatenation, in this     *)
(* order, of a strong clause (at most 3 names plus "and N others") if a    *)
(* habit is strong, an improving clause (at most 2 names) if a habit is    *)
(* improving, and a struggling clause naming exactly one habit if a habit  *)
(* is struggling, with the 'pick one habit' framing exactly when no habit  *)
(* is strong or improving and the 'a bit more attention' footnote          *)
(* otherwise; when no habit is strong, improving or struggling, it is the  *)
(* balanced-mix sentence.                                                  *)
C27_ClausesInOrderOrBalancedMix ==
    (SummaryDone /\ Len(res.stats) > 0) =>
        IF AllStrong
        THEN res.text = <<[sentence |-> "crushing_it"]>>
        ELSE IF res.strong = <<>> /\ res.improving = <<>> /\ res.struggling = <<>>
        THEN res.text = <<[sentence |-> "balanced_mix"]>>
        ELSE /\ res.text = StrongClause \o ImprovingClause \o StrugglingClause
             /\ \A k \in 1..Len(res.text) :
                  /\ Len(res.text[k].names) >= 1
                  /\ Len(res.text[k].names) <=
                        (CASE res.text[k].sentence = "doing_great" -> 3
                           [] res.text[k].sentence = "building_momentum" -> 2
                           [] OTHER -> 1)

\* four strong habits and one struggling: three names, "and 1 others", and
\* the footnote
C27_Witness ==
    /\ SummaryDone
    /\ Len(habits) = 5 /\ Len(res.strong) = 4 /\ Len(res.struggling) = 1
    /\ res.text = <<[sentence |-> "doing_great",
                     names |-> FirstNames(res.strong, 3), others |-> 1],
                    [sentence |-> "more_attention",
                     names |-> <<res.struggling[1].name>>]>>

\* three improving habits, two named, and all three clauses present
C27_WitnessThreeClauses ==
    /\ SummaryDone
    /\ Len(res.improving) = 3 /\ Len(res.strong) = 1 /\ Len(res.struggling) = 1
    /\ Len(res.text) = 3
    /\ Len(res.text[2].names) = 2

\* only struggling habits: the framing of one habit to pick
C27_WitnessPickOne ==
    /\ SummaryDone
    /\ Len(res.struggling) = 2 /\ res.strong = <<>> /\ res.improving = <<>>
    /\ res.text = <<[sentence |-> "pick_one_habit",
                     names |-> <<res.struggling[1].name>>]>>

\* every habit strong
C27_WitnessAllStrong ==
    /\ SummaryDone
    /\ Len(res.stats) = 3 /\ AllStrong
    /\ res.text = <<[sentence |-> "crushing_it"]>>

\* habits of no class only
C27_WitnessBalancedMix ==
    /\ SummaryDone
    /\ Len(res.stats) = 2
    /\ res.text = <<[sentence |-> "balanced_mix"]>>

----------------------------------------------------------------------------
(* Claim on the range of the correlation score *)

(* C28: every Correlation returned by findCorrelations has a score between *)
(* -1 and 1, as the Correlation interface documents.                       *)
C28_ScoreWithinMinusOneAndOne ==
    CorrelationsDone =>
        \A k \in 1..Len(res.returned) :
            /\ QGe(res.returned[k].score, -1, 1)
            /\ ~QGt(res.returned[k].score, 1, 1)

\* the score of a returned correlation is the lift, which is above 1.5
C28_ScoreIsLiftAboveThreshold ==
    CorrelationsDone =>
        \A k \in 1..Len(res.returned) : QGt(res.returned[k].score, 3, 2)

----------------------------------------------------------------------------
(* Remote data layer (remote.ts): the mapping of a habit to and from its   *)
(* API form                                                                *)

\* a direction string as its words and separators
Spell(d) ==
    CASE d = "at_least" -> <<"at", "_", "least">>
      [] d = "at_most" -> <<"at", "_", "most">>
      [] d = "at least" -> <<"at", " ", "least">>
      [] d = "at most" -> <<"at", " ", "most">>
      [] d = "exactly" -> <<"exactly">>

Unspell(w) == CHOOSE d \in TargetDirections \cup RemoteDirections : Spell(d) = w

RECURSIVE ReplaceFirst(_, _, _)
\* String.prototype.replace(a, b) with a string pattern: the first
\* occurrence only
ReplaceFirst(w, a, b) ==
    IF w = <<>> THEN <<>>
    ELSE IF Head(w) = a THEN <<b>> \o Tail(w)
    ELSE <<Head(w)>> \o ReplaceFirst(Tail(w), a, b)

\* the field is absent (undefined or null)
NoDirection == None

\* the body sent for a habit; the server stores it under the habit's id
mapHabitToApi(h) ==
    [id |-> h.id,
     habit_type |-> h.type,
     has_target |-> h.hasTarget,
     target_value |-> h.targetValue,
     target_direction |-> Unspell(ReplaceFirst(Spell(h.targetDirection), " ", "_"))]

mapHabitFromApi(h) ==
    Habit(h.id, h.habit_type, h.has_target, h.target_value,
          IF h.target_direction = NoDirection THEN "at_least"
          ELSE Unspell(ReplaceFirst(Spell(h.target_direction), "_", " ")))

----------------------------------------------------------------------------
(* Specification SpecRemote: a habit is created through the remote layer   *)
(* and read back, or a habit the server holds is read                      *)

InitRemote ==
    /\ \/ /\ pc = "remote_input"
          /\ \E h \in HabitDomain("h1") :
                /\ h.targetDirection \in TargetDirections
                /\ habits = <<h>>
          /\ res = None
       \/ /\ pc = "remote_stored"
          /\ habits = <<>>
          /\ \E ty \in HabitTypes, t \in 0..MaxTarget,
                d \in TargetDirections \cup {NoDirection} :
                res = [api |-> [id |-> "h1", habit_type |-> ty, has_target |-> TRUE,
                                target_value |-> t, target_direction |-> d]]
    /\ value \in (-1)..(MaxValue + 1)
    /\ checkIns = <<>>
    /\ habitId = "h1"
    /\ now = 0
    /\ zone = NoZone
    /\ days = 0
    /\ procs = <<>>
    /\ nextId = 0

\* createHabit: body: JSON.stringify(mapHabitToApi(input))
SendHabit ==
    /\ pc = "remote_input"
    /\ res' = [api |-> mapHabitToApi(habits[1])]
    /\ pc' = "remote_sent"
    /\ UNCHANGED <<habits, checkIns, habitId, value, now, zone, days, procs, nextId>>

\* createHabit, getHabit, getActiveHabits: mapHabitFromApi(habit)
ReceiveHabit ==
    /\ pc \in {"remote_sent", "remote_stored"}
    /\ res' = [api |-> res.api, remote |-> mapHabitFromApi(res.api)]
    /\ pc' = IF pc = "remote_sent" THEN "remote_returned" ELSE "remote_read"
    /\ UNCHANGED <<habits, checkIns, habitId, value, now, zone, days, procs, nextId>>

NextRemote == SendHabit \/ ReceiveHabit

SpecRemote == InitRemote /\ [][NextRemote]_vars

----------------------------------------------------------------------------
(* Claim on the target direction of a habit of the remote layer *)

(* C29: every Habit produced by the remote data layer has a                *)
(* targetDirection in {at_least, at_most, exactly}, and mapping a habit to *)
(* its API form and back preserves its targetDirection, so the completion  *)
(* predicate takes the same direction branch for a habit whether it is     *)
(* read from the local or the remote layer.                                *)
C29_RemoteDirectionPreserved ==
    /\ (pc \in {"remote_returned", "remote_read"}) =>
          res.remote.targetDirection \in TargetDirections
    /\ (pc = "remote_returned") =>
          /\ res.remote.targetDirection = habits[1].targetDirection
          /\ isCompletedStreaks(res.remote, value) = isCompletedStreaks(habits[1], value)
          /\ isCompletedHeatmap(res.remote, value) = isCompletedHeatmap(habits[1], value)

\* the API form carries the direction of the local habit, and a habit
\* whose direction is exactly, or absent on the server, comes back with a
\* direction of the type
C29_ApiFormKeepsDirection ==
    /\ (pc = "remote_sent") => res.api.target_direction = habits[1].targetDirection
    /\ (pc \in {"remote_returned", "remote_read"}
          /\ res.api.target_direction \in {"exactly", NoDirection})
          => res.remote.targetDirection \in {"exactly", "at_least"}

(***************************************************************************)
(* Specification SpecSocial: the stores currentUser and socialModeEnabled  *)
(* of data/index.ts, the access token of the ApiClient of data/remote.ts,  *)
(* and the asynchronous operations that write them, interleaved at their   *)
(* awaits.  Here res holds the stores and the token, procs the calls that  *)
(* are in flight, each at the await it is suspended on.                    *)
(***************************************************************************)

UserIds == {"u1", "u2"}

\* null of currentUser
NoUser == [id |-> None, cloudSyncEnabled |-> FALSE]

\* mapUserProfile(u), of which the stores read id and cloudSyncEnabled
mapUserProfile(id, sync) == [id |-> id, cloudSyncEnabled |-> sync]

NoCall == [op |-> "idle", at |-> "idle", token |-> None, user |-> NoUser]

Call(op, at, token, user) ==
    [op |-> op, at |-> at, token |-> token, user |-> user]

currentUser == res.currentUser
socialModeEnabled == res.socialModeEnabled
accessToken == res.accessToken

\* apiClient.isAuthenticated()
isAuthenticated == accessToken # None

\* canUseSharing()
canUseSharing == currentUser # NoUser /\ socialModeEnabled

\* the outcomes of api.fetch(path) of a request that carried the token t:
\* the parsed response, a thrown error, or a 401 whose refresh ends in
\* clearTokens() and a thrown error; without a token no request is accepted
FetchOutcomes(t) ==
    IF t = None THEN {"error", "unauthorized"}
    ELSE {"ok", "error", "unauthorized"}

\* the token after api.fetch with the outcome o
TokenAfter(o) == IF o = "unauthorized" THEN None ELSE accessToken

\* the value of remoteAuth.getCurrentUser() whose request carried the token
\* t: the profile of the user of the token, or null when the fetch threw
ProfilesOf(t, o) ==
    IF o = "ok" THEN { mapUserProfile(t, b) : b \in BOOLEAN } ELSE {NoUser}

InitSocial ==
    /\ pc = "social"
    /\ habits = <<>>
    /\ checkIns = <<>>
    /\ habitId = None
    /\ value = 0
    /\ now = 0
    /\ zone = NoZone
    /\ days = 0
    /\ \E t \in UserIds \cup {None} :
          res = [currentUser |-> NoUser, socialModeEnabled |-> FALSE,
                 accessToken |-> t]
    /\ procs = [p \in 1..MaxProcs |-> NoCall]
    /\ nextId = 0

SocialUnchanged ==
    UNCHANGED <<pc, habits, checkIns, habitId, value, now, zone, days, nextId>>

\* an operation op is suspended at its await
InFlight(op) == \E p \in 1..MaxProcs : procs[p].op = op

\* an operation is called: it runs to its first await and is suspended there
Suspend(op, at, user) ==
    /\ pc = "social"
    /\ \E p \in 1..MaxProcs :
          /\ procs[p].op = "idle"
          /\ procs' = [procs EXCEPT ![p] = Call(op, at, accessToken, user)]
    /\ UNCHANGED res
    /\ SocialUnchanged

\* initDataLayer() up to const user = await remoteAuth.getCurrentUser(),
\* which it reaches only if (apiClient.isAuthenticated())
InitDataLayerStart ==
    /\ isAuthenticated
    /\ Suspend("initDataLayer", "getCurrentUser", NoUser)

\* checkAuthState() up to const user = await remoteAuth.getCurrentUser();
\* without a token getCurrentUser returns null and nothing is set
CheckAuthStateStart ==
    /\ isAuthenticated
    /\ Suspend("checkAuthState", "getCurrentUser", NoUser)

\* ... and after it, in both: if (user) { currentUser.set(user);
\* socialModeEnabled.set(user.cloudSyncEnabled) }
RestoreUser(op) ==
    /\ pc = "social"
    /\ \E p \in 1..MaxProcs :
          /\ procs[p].op = op
          /\ \E o \in FetchOutcomes(procs[p].token) :
             \E user \in ProfilesOf(procs[p].token, o) :
                res' = IF user # NoUser
                       THEN [currentUser |-> user,
                             socialModeEnabled |-> user.cloudSyncEnabled,
                             accessToken |-> TokenAfter(o)]
                       ELSE [res EXCEPT !.accessToken = TokenAfter(o)]
          /\ procs' = [procs EXCEPT ![p] = NoCall]
    /\ SocialUnchanged

InitDataLayerFinish ==
    /\ InFlight("initDataLayer")
    /\ RestoreUser("initDataLayer")

CheckAuthStateFinish ==
    /\ InFlight("checkAuthState")
    /\ RestoreUser("checkAuthState")

\* enableSocialMode() up to await remoteSync.enableCloudSync(): it throws
\* before the request if (!user)
EnableSocialModeStart ==
    /\ currentUser # NoUser
    /\ Suspend("enableSocialMode", "enableCloudSync", currentUser)

\* ... and after it: socialModeEnabled.set(true), unless the request threw
EnableSocialModeFinish ==
    /\ pc = "social"
    /\ \E p \in 1..MaxProcs :
          /\ procs[p].op = "enableSocialMode"
          /\ \E o \in FetchOutcomes(procs[p].token) :
                res' = [res EXCEPT
                          !.socialModeEnabled = IF o = "ok" THEN TRUE ELSE @,
                          !.accessToken = TokenAfter(o)]
          /\ procs' = [procs EXCEPT ![p] = NoCall]
    /\ SocialUnchanged

\* disableSocialMode() up to await remoteSync.disableCloudSync()
DisableSocialModeStart ==
    /\ pc = "social"
    /\ Suspend("disableSocialMode", "disableCloudSync", NoUser)

\* ... and after it: socialModeEnabled.set(false), unless the request threw
DisableSocialModeFinish ==
    /\ pc = "social"
    /\ \E p \in 1..MaxProcs :
          /\ procs[p].op = "disableSocialMode"
          /\ \E o \in FetchOutcomes(procs[p].token) :
                res' = [res EXCEPT
                          !.socialModeEnabled = IF o = "ok" THEN FALSE ELSE @,
                          !.accessToken = TokenAfter(o)]
          /\ procs' = [procs EXCEPT ![p] = NoCall]
    /\ SocialUnchanged

\* signOut() up to await remoteAuth.logout(), itself suspended on
\* await api.fetch('/auth/logout')
SignOutStart ==
    /\ pc = "social"
    /\ Suspend("signOut", "logout", NoUser)

\* the finally of RemoteAuthLayer.logout(): api.clearTokens(), whatever the
\* request did; signOut is resumed in a later turn
LogoutFinally ==
    /\ pc = "social"
    /\ \E p \in 1..MaxProcs :
          /\ procs[p].op = "signOut"
          /\ procs[p].at = "logout"
          /\ procs' = [procs EXCEPT ![p].at = "finally"]
    /\ res' = [res EXCEPT !.accessToken = None]
    /\ SocialUnchanged

\* the finally of signOut(): currentUser.set(null);
\* socialModeEnabled.set(false)
SignOutFinally ==
    /\ pc = "social"
    /\ \E p \in 1..MaxProcs :
          /\ procs[p].op = "signOut"
          /\ procs[p].at = "finally"
          /\ procs' = [procs EXCEPT ![p] = NoCall]
    /\ res' = [res EXCEPT !.currentUser = NoUser,
                          !.socialModeEnabled = FALSE]
    /\ SocialUnchanged

\* handleGoogleCallback(code) up to
\* const response = await remoteAuth.handleGoogleCallback(code)
HandleGoogleCallbackStart ==
    /\ pc = "social"
    /\ Suspend("handleGoogleCallback", "callback", NoUser)

\* handleAppleCallback(code, idToken, user), likewise
HandleAppleCallbackStart ==
    /\ pc = "social"
    /\ Suspend("handleAppleCallback", "callback", NoUser)

\* RemoteAuthLayer.handleGoogleCallback and handleAppleCallback after their
\* fetch: api.setTokens(data.access_token, ...); return
\* mapAuthResponse(data), or the error of a fetch that failed
CallbackResponse(op) ==
    /\ pc = "social"
    /\ \E p \in 1..MaxProcs :
          /\ procs[p].op = op
          /\ procs[p].at = "callback"
          /\ \/ /\ procs' = [procs EXCEPT ![p] = NoCall]
                /\ UNCHANGED res
             \/ \E id \in UserIds, b \in BOOLEAN :
                   /\ procs' = [procs EXCEPT ![p] =
                         Call(op, "setAuthState", id, mapUserProfile(id, b))]
                   /\ res' = [res EXCEPT !.accessToken = id]
    /\ SocialUnchanged

GoogleCallbackResponse ==
    /\ InFlight("handleGoogleCallback")
    /\ CallbackResponse("handleGoogleCallback")

AppleCallbackResponse ==
    /\ InFlight("handleAppleCallback")
    /\ CallbackResponse("handleAppleCallback")

\* setAuthState(response): currentUser.set(response.user);
\* socialModeEnabled.set(response.user.cloudSyncEnabled)
setAuthState ==
    /\ pc = "social"
    /\ \E p \in 1..MaxProcs :
          /\ procs[p].at = "setAuthState"
          /\ res' = [res EXCEPT
                       !.currentUser = procs[p].user,
                       !.socialModeEnabled = procs[p].user.cloudSyncEnabled]
          /\ procs' = [procs EXCEPT ![p] = NoCall]
    /\ SocialUnchanged

NextSocial ==
    \/ InitDataLayerStart
    \/ InitDataLayerFinish
    \/ CheckAuthStateStart
    \/ CheckAuthStateFinish
    \/ EnableSocialModeStart
    \/ EnableSocialModeFinish
    \/ DisableSocialModeStart
    \/ DisableSocialModeFinish
    \/ SignOutStart
    \/ LogoutFinally
    \/ SignOutFinally
    \/ HandleGoogleCallbackStart
    \/ HandleAppleCallbackStart
    \/ GoogleCallbackResponse
    \/ AppleCallbackResponse
    \/ setAuthState

SpecSocial == InitSocial /\ [][NextSocial]_vars

\* C30: in every reachable state, the interleavings of enableSocialMode,
\* disableSocialMode, signOut, initDataLayer, checkAuthState and the OAuth
\* callbacks at their awaits included, socialModeEnabled = true implies
\* that currentUser is not null
C30_SocialModeImpliesUser ==
    pc = "social" => (socialModeEnabled => currentUser # NoUser)

\* C30, the part that holds: no operation sets socialModeEnabled to true
\* while currentUser is null, except enableSocialMode resumed after a sign
\* out; social mode without a user is never usable for sharing
C30_SocialModeWithoutUserOnlyByEnable ==
    [][(pc = "social" /\ ~socialModeEnabled /\ socialModeEnabled'
          /\ currentUser' = NoUser)
         => InFlight("enableSocialMode")]_vars

====
